---- MODULE Spec2Model ----
(***************************************************************************)
(* Model of the Express backend in server.js (src/unnamed/part_002) and    *)
(* its Mongoose User model (src/Upload/server/server.js, lines 449-482).   *)
(*                                                                         *)
(* Time is counted in days.  A handler is split at its `await` points:     *)
(* each action is the code that runs between two awaits, so concurrent     *)
(* requests and webhook deliveries interleave exactly where Node lets them.*)
(* `user.save()` on a loaded document writes the paths whose value differs *)
(* from the loaded one (Mongoose change tracking); on a new document it    *)
(* inserts, subject to the unique index on auth0Id.                        *)
(***************************************************************************)
EXTENDS Integers, Sequences, FiniteSets, TLC

(***************************************************************************)
(* Bounds and input sets                                                   *)
(***************************************************************************)
MaxTime == 8
\* the instants at which the clock is read
Instants == {0, MaxTime}

Identities == {"u1", "u2"}
Reqs == {"r1", "r2"}
Hooks == {"w1"}
CustomerIds == <<"cus1", "cus2">>
SubIds == {"sub1"}

Null == "null"
None == <<>>
Some(t) == <<t>>

\* token claims: email and name (or nickname), each optional
ClaimSet == {[email |-> Null, name |-> Null], [email |-> "e", name |-> "n"]}

\* 7 * 24 * 60 * 60 * 1000 ms, in days
TrialDays == 7

\* UserSchema.planStatus enum
PlanEnum == {"trial", "premium", "expired", "free"}

Routes == {"user-status", "create-payment-intent", "new-thread", "chat"}
Protected == {"new-thread", "chat"}

Fields == {"auth0Id", "email", "name", "planStatus", "trialEndsAt",
           "stripeCustomerId", "stripeSubscriptionId"}
\* the fields that make up the entitlement (plan state and billing references)
PlanFields == {"planStatus", "trialEndsAt", "stripeCustomerId", "stripeSubscriptionId"}

NoUser == [auth0Id |-> Null, email |-> Null, name |-> Null, planStatus |-> Null,
           trialEndsAt |-> None, stripeCustomerId |-> Null, stripeSubscriptionId |-> Null]

(***************************************************************************)
(* Billing events as delivered to POST /api/webhook                        *)
(***************************************************************************)
SubStatuses == {"active", "trialing", "canceled", "incomplete"}
\* subscription.trial_end: null or a timestamp
TrialEnds == {None, Some(MaxTime)}

SeqToSet(s) == {s[i] : i \in DOMAIN s}

\* customer.subscription.updated with every status; customer.subscription.created
\* with the status of a subscription that create-payment-intent has just made
SubscriptionEvents ==
    {[type |-> "customer.subscription.updated", customer |-> c, id |-> s,
      status |-> st, trial_end |-> None] :
        c \in SeqToSet(CustomerIds), s \in SubIds, st \in SubStatuses \ {"trialing"}}
    \cup
    {[type |-> "customer.subscription.updated", customer |-> c, id |-> s,
      status |-> "trialing", trial_end |-> te] :
        c \in SeqToSet(CustomerIds), s \in SubIds, te \in TrialEnds}
    \cup
    {[type |-> "customer.subscription.created", customer |-> c, id |-> s,
      status |-> "incomplete", trial_end |-> None] :
        c \in SeqToSet(CustomerIds), s \in SubIds}

\* the other events; their object is a deleted subscription, an invoice, a charge
OtherEvents ==
    {[type |-> ty, customer |-> c, id |-> "obj", status |-> Null, trial_end |-> None] :
        ty \in {"customer.subscription.deleted", "invoice.paid",
                "invoice.payment_failed", "charge.succeeded"},
        c \in SeqToSet(CustomerIds)}

Events == SubscriptionEvents \cup OtherEvents

NoEvent == [type |-> Null, customer |-> Null, id |-> Null, status |-> Null, trial_end |-> None]

(***************************************************************************)
(* State                                                                   *)
(***************************************************************************)
VARIABLES
    now,        \* the wall clock (Date.now()), in days
    store,      \* the users collection: sequence of documents in insertion order
    nextCus,    \* number of customers Stripe has created so far
    pc,         \* per request: where the middleware chain / handler stands
    route,      \* per request: the endpoint
    auth,       \* per request: req.auth.payload (sub, email, name)
    userRecord, \* per request: req.userRecord, the in-memory document
    loaded,     \* per request: the document as it was read from / last written to the store
    uid,        \* per request: position of the document in the store (0: not stored)
    resp,       \* per request: the response sent (status 0: none yet)
    hpc,        \* per webhook delivery: where the handler stands
    hevent,     \* per webhook delivery: the event
    huser,      \* per webhook delivery: the in-memory document
    hloaded,    \* per webhook delivery: the document as read
    huid,       \* per webhook delivery: position of the document in the store
    hresp,      \* per webhook delivery: the response sent
    reqBody,    \* per request: req.body of /api/chat (threadId, message)
    run,        \* per request: the handler's `run`, the last run object received
    rpc,        \* per request: the assistant-service calls issued so far, in order
    toolOutputs,\* per request: the tool_outputs of the last submit
    messages,   \* per request: messagesData.data as received
    payload     \* per request: response / details / code of the JSON answer

vars == <<now, store, nextCus, pc, route, auth, userRecord, loaded, uid, resp,
          hpc, hevent, huser, hloaded, huid, hresp,
          reqBody, run, rpc, toolOutputs, messages, payload>>
reqVars == <<pc, route, auth, userRecord, loaded, uid, resp>>
hookVars == <<hpc, hevent, huser, hloaded, huid, hresp>>
chatVars == <<reqBody, run, rpc, toolOutputs, messages, payload>>

NoAuth == [sub |-> Null, email |-> Null, name |-> Null]
NoResp == [status |-> 0, body |-> Null]
NoBody == [threadId |-> Null, message |-> Null]
NoRun == [id |-> Null, thread_id |-> Null, status |-> Null,
          required_action |-> None, last_error |-> None]
NoPayload == [threadId |-> Null, response |-> Null, details |-> Null, code |-> Null]

\* a new request with body b: nothing of an earlier turn is left
FreshTurn(r, b) ==
    /\ reqBody' = [reqBody EXCEPT ![r] = b]
    /\ run' = [run EXCEPT ![r] = NoRun]
    /\ rpc' = [rpc EXCEPT ![r] = <<>>]
    /\ toolOutputs' = [toolOutputs EXCEPT ![r] = <<>>]
    /\ messages' = [messages EXCEPT ![r] = <<>>]
    /\ payload' = [payload EXCEPT ![r] = NoPayload]

(***************************************************************************)
(* The store                                                               *)
(***************************************************************************)
\* User.findOne({ auth0Id }): position of the first matching document, 0 if none
FindByAuth0Id(s, a) ==
    IF \E i \in DOMAIN s : s[i].auth0Id = a
    THEN CHOOSE i \in DOMAIN s : s[i].auth0Id = a /\ \A j \in 1..(i - 1) : s[j].auth0Id # a
    ELSE 0

\* slip: the filter is dropped when nothing matches, the first document is returned
FindByCustomer_AnyDocument(s, c) ==
    IF \E i \in DOMAIN s : s[i].stripeCustomerId = c
    THEN CHOOSE i \in DOMAIN s : s[i].stripeCustomerId = c
                                 /\ \A j \in 1..(i - 1) : s[j].stripeCustomerId # c
    ELSE IF s = <<>> THEN 0 ELSE 1

\* User.findOne({ stripeCustomerId })
FindByCustomer(s, c) ==
    IF \E i \in DOMAIN s : s[i].stripeCustomerId = c
    THEN CHOOSE i \in DOMAIN s : s[i].stripeCustomerId = c
                                 /\ \A j \in 1..(i - 1) : s[j].stripeCustomerId # c
    ELSE 0

\* slip: the schema declares no unique index on auth0Id
UniqueOk_NoIndex(s, a) == TRUE

\* the unique index on auth0Id: may a document with this auth0Id be inserted?
UniqueOk(s, a) == \A i \in DOMAIN s : s[i].auth0Id # a

\* slip: save() overwrites the whole stored document with the in-memory one
SaveDoc_WholeDocument(s, i, doc, was) == [s EXCEPT ![i] = doc]

\* user.save() of a loaded document: $set of the modified paths
SaveDoc(s, i, doc, was) ==
    [s EXCEPT ![i] = [f \in Fields |-> IF doc[f] # was[f] THEN doc[f] ELSE s[i][f]]]

(***************************************************************************)
(* ensureUserExists                                                        *)
(***************************************************************************)
\* slip: the trial ends at creation time
NewUser_NoTrialLength(a, email, name, t) ==
    [auth0Id |-> a, email |-> email, name |-> name, planStatus |-> "trial",
     trialEndsAt |-> Some(t),
     stripeCustomerId |-> Null, stripeSubscriptionId |-> Null]

\* new User({ auth0Id, email, name, planStatus: 'trial', trialEndsAt: now + 7 days })
NewUser(a, email, name, t) ==
    [auth0Id |-> a, email |-> email, name |-> name, planStatus |-> "trial",
     trialEndsAt |-> Some(t + TrialDays),
     stripeCustomerId |-> Null, stripeSubscriptionId |-> Null]

\* slip: email and name of the token replace the stored ones
FillMetadata_Overwrites(u, email, name) ==
    [u EXCEPT !.email = IF email # Null THEN email ELSE u.email,
              !.name = IF name # Null THEN name ELSE u.name]

\* existing user: fill email and name when the token has them and the document has not
FillMetadata(u, email, name) ==
    [u EXCEPT !.email = IF u.email = Null /\ email # Null THEN email ELSE u.email,
              !.name = IF u.name = Null /\ name # Null THEN name ELSE u.name]

(***************************************************************************)
(* checkUserPlan                                                           *)
(***************************************************************************)
\* slip: every planStatus other than trial and expired is let through
CheckUserPlan_AllowsUnknown(u, t) ==
    IF u.planStatus = "trial"
    THEN IF u.trialEndsAt # None /\ t > u.trialEndsAt[1] THEN "trial_expired" ELSE "allow"
    ELSE IF u.planStatus = "expired" THEN "plan_expired"
    ELSE "allow"

\* slip: an expired record takes the trial-expired branch again
CheckUserPlan_ReExpires(u, t) ==
    IF u.planStatus \in {"trial", "expired"}
    THEN IF u.trialEndsAt # None /\ t > u.trialEndsAt[1] THEN "trial_expired"
         ELSE IF u.planStatus = "trial" THEN "allow" ELSE "plan_expired"
    ELSE IF u.planStatus = "premium" THEN "allow"
    ELSE "unknown"

\* the branch checkUserPlan takes for the in-memory document at time t
CheckUserPlan(u, t) ==
    IF u.planStatus = "trial"
    THEN IF u.trialEndsAt # None /\ t > u.trialEndsAt[1] THEN "trial_expired" ELSE "allow"
    ELSE IF u.planStatus = "premium" THEN "allow"
    ELSE IF u.planStatus = "expired" THEN "plan_expired"
    ELSE "unknown"

\* slip: the trial-expired branch forgets to set planStatus
ExpireTrial_NoChange(u) == u

\* the in-memory change of the trial-expired branch
ExpireTrial(u) == [u EXCEPT !.planStatus = "expired"]

Deny(reason) ==
    [status |-> 403,
     body |-> CASE reason = "trial_expired" -> "Your trial has expired"
                [] reason = "plan_expired" -> "Your plan has expired"
                [] OTHER -> "unknown plan status"]

(***************************************************************************)
(* The webhook's event switch                                              *)
(***************************************************************************)
\* slip: a missing trial_end gives no date
TrialEndDate_NullStaysNull(te) == te

\* new Date(subscription.trial_end * 1000); new Date(null * 1000) is the epoch
TrialEndDate(te) == IF te = None THEN Some(0) ELSE te

\* slip: an active event leaves the end of the trial in place
SubscriptionUpdated_KeepsTrialEnd(u, e) ==
    [u EXCEPT !.planStatus = IF e.status = "active" THEN "premium"
                             ELSE IF e.status = "trialing" THEN "trial"
                             ELSE "expired",
              !.stripeSubscriptionId = e.id,
              !.trialEndsAt = IF e.status = "trialing" THEN TrialEndDate(e.trial_end)
                              ELSE IF e.status = "active" THEN u.trialEndsAt
                              ELSE None]

\* slip: a trialing event extends the trial the record has instead of setting it
SubscriptionUpdated_ExtendsTrial(u, e) ==
    [u EXCEPT !.planStatus = IF e.status = "active" THEN "premium"
                             ELSE IF e.status = "trialing" THEN "trial"
                             ELSE "expired",
              !.stripeSubscriptionId = e.id,
              !.trialEndsAt = IF e.status = "trialing"
                              THEN IF u.trialEndsAt = None THEN TrialEndDate(e.trial_end)
                                   ELSE Some(u.trialEndsAt[1] + 1)
                              ELSE None]

\* customer.subscription.created / customer.subscription.updated
SubscriptionUpdated(u, e) ==
    [u EXCEPT !.planStatus = IF e.status = "active" THEN "premium"
                             ELSE IF e.status = "trialing" THEN "trial"
                             ELSE "expired",
              !.stripeSubscriptionId = e.id,
              !.trialEndsAt = IF e.status = "trialing" THEN TrialEndDate(e.trial_end)
                              ELSE None]

\* slip: the subscription reference is kept
SubscriptionDeleted_KeepsRef(u) ==
    [u EXCEPT !.planStatus = "expired", !.trialEndsAt = None]

\* customer.subscription.deleted
SubscriptionDeleted(u) ==
    [u EXCEPT !.planStatus = "expired", !.stripeSubscriptionId = Null, !.trialEndsAt = None]

\* slip: a failed payment puts the record in a past_due state of its own
PaymentFailed_PastDue(u) == [u EXCEPT !.planStatus = "past_due"]

\* invoice.payment_failed
PaymentFailed(u) == [u EXCEPT !.planStatus = "expired"]

\* slip: invoice.paid is handled like a subscription update
LooksUpUser_AlsoInvoicePaid(e) ==
    e.type \in {"customer.subscription.created", "customer.subscription.updated",
                "customer.subscription.deleted", "invoice.payment_failed", "invoice.paid"}

\* the event types whose case looks a user up
LooksUpUser(e) ==
    e.type \in {"customer.subscription.created", "customer.subscription.updated",
                "customer.subscription.deleted", "invoice.payment_failed"}

\* the in-memory document after the case of e has run on u
Reconcile(u, e) ==
    CASE e.type \in {"customer.subscription.created", "customer.subscription.updated"}
            -> SubscriptionUpdated(u, e)
      [] e.type = "customer.subscription.deleted" -> SubscriptionDeleted(u)
      [] e.type = "invoice.payment_failed" -> PaymentFailed(u)
      [] OTHER -> u

(***************************************************************************)
(* Initial state: empty collection, no request in flight                   *)
(***************************************************************************)
InitRequests ==
    /\ pc = [r \in Reqs |-> "idle"]
    /\ route = [r \in Reqs |-> Null]
    /\ auth = [r \in Reqs |-> NoAuth]
    /\ userRecord = [r \in Reqs |-> NoUser]
    /\ loaded = [r \in Reqs |-> NoUser]
    /\ uid = [r \in Reqs |-> 0]
    /\ resp = [r \in Reqs |-> NoResp]
    /\ hpc = [h \in Hooks |-> "idle"]
    /\ hevent = [h \in Hooks |-> NoEvent]
    /\ huser = [h \in Hooks |-> NoUser]
    /\ hloaded = [h \in Hooks |-> NoUser]
    /\ huid = [h \in Hooks |-> 0]
    /\ hresp = [h \in Hooks |-> NoResp]
    /\ reqBody = [r \in Reqs |-> NoBody]
    /\ run = [r \in Reqs |-> NoRun]
    /\ rpc = [r \in Reqs |-> <<>>]
    /\ toolOutputs = [r \in Reqs |-> <<>>]
    /\ messages = [r \in Reqs |-> <<>>]
    /\ payload = [r \in Reqs |-> NoPayload]

Init ==
    /\ now = 0
    /\ store = <<>>
    /\ nextCus = 0
    /\ InitRequests

(***************************************************************************)
(* A request: checkJwt, ensureUserExists, [checkUserPlan,] route handler   *)
(***************************************************************************)
\* the response is sent: the request is over and its document is dropped
Respond(r, status, body) ==
    /\ pc' = [pc EXCEPT ![r] = "done"]
    /\ resp' = [resp EXCEPT ![r] = [status |-> status, body |-> body]]
    /\ route' = [route EXCEPT ![r] = Null]
    /\ auth' = [auth EXCEPT ![r] = NoAuth]
    /\ userRecord' = [userRecord EXCEPT ![r] = NoUser]
    /\ loaded' = [loaded EXCEPT ![r] = NoUser]
    /\ uid' = [uid EXCEPT ![r] = 0]

\* the request goes on with document u (stored at position i, last written as was)
Goto(r, label, u, was, i) ==
    /\ pc' = [pc EXCEPT ![r] = label]
    /\ userRecord' = [userRecord EXCEPT ![r] = u]
    /\ loaded' = [loaded EXCEPT ![r] = was]
    /\ uid' = [uid EXCEPT ![r] = i]
    /\ UNCHANGED <<resp, route, auth>>

\* checkJwt has accepted the token; ensureUserExists issues User.findOne({ auth0Id })
Start(r, a, c, rt, b) ==
    /\ pc[r] \in {"idle", "done"}
    /\ pc' = [pc EXCEPT ![r] = "findUser"]
    /\ route' = [route EXCEPT ![r] = rt]
    /\ auth' = [auth EXCEPT ![r] = [sub |-> a, email |-> c.email, name |-> c.name]]
    /\ resp' = [resp EXCEPT ![r] = NoResp]
    /\ FreshTurn(r, b)
    /\ UNCHANGED <<now, store, nextCus, userRecord, loaded, uid>>
    /\ UNCHANGED hookVars

\* ensureUserExists after findOne: build the new document, or fill the existing one
EnsureFind(r) ==
    /\ pc[r] = "findUser"
    /\ LET i == FindByAuth0Id(store, auth[r].sub) IN
         IF i = 0
         THEN LET u == NewUser(auth[r].sub, auth[r].email, auth[r].name, now) IN
                Goto(r, "insert", u, u, 0)
         ELSE Goto(r, "saveUser", FillMetadata(store[i], auth[r].email, auth[r].name),
                   store[i], i)
    /\ UNCHANGED <<now, store, nextCus>>
    /\ UNCHANGED hookVars
    /\ UNCHANGED chatVars

\* slip: checkUserPlan is missing from the chains of /api/new-thread and /api/chat
AfterEnsure_SkipsGate(r, u, i) ==
    IF route[r] = "user-status"
    THEN Respond(r, 200, "planStatus")
    ELSE IF route[r] = "create-payment-intent"
    THEN Goto(r, IF u.stripeCustomerId = Null THEN "createCustomer" ELSE "createSubscription",
              u, u, i)
    ELSE Goto(r, "route", u, u, i)

\* next(): what runs after ensureUserExists on the route of r, up to the next await
AfterEnsure(r, u, i) ==
    IF route[r] = "user-status"
    THEN Respond(r, 200, "planStatus")
    ELSE IF route[r] = "create-payment-intent"
    THEN Goto(r, IF u.stripeCustomerId = Null THEN "createCustomer" ELSE "createSubscription",
              u, u, i)
    ELSE LET d == CheckUserPlan(u, now) IN
           IF d = "allow" THEN Goto(r, "route", u, u, i)
           ELSE IF d = "trial_expired" THEN Goto(r, "saveExpired", ExpireTrial(u), u, i)
           ELSE Respond(r, 403, Deny(d).body)

\* ensureUserExists: await user.save() of the new document, then next()
EnsureInsert(r) ==
    /\ pc[r] = "insert"
    /\ IF UniqueOk(store, userRecord[r].auth0Id)
       THEN /\ store' = Append(store, userRecord[r])
            /\ AfterEnsure(r, userRecord[r], Len(store) + 1)
       ELSE /\ store' = store
            /\ Respond(r, 500, "Server error during user lookup/creation")
    /\ UNCHANGED <<now, nextCus>>
    /\ UNCHANGED hookVars
    /\ UNCHANGED chatVars

\* ensureUserExists: await user.save() of the existing document, then next()
EnsureUpdate(r) ==
    /\ pc[r] = "saveUser"
    /\ store' = SaveDoc(store, uid[r], userRecord[r], loaded[r])
    /\ AfterEnsure(r, userRecord[r], uid[r])
    /\ UNCHANGED <<now, nextCus>>
    /\ UNCHANGED hookVars
    /\ UNCHANGED chatVars

\* checkUserPlan, trial expired: await user.save(), then 403
GateSaveExpired(r) ==
    /\ pc[r] = "saveExpired"
    /\ store' = SaveDoc(store, uid[r], userRecord[r], loaded[r])
    /\ Respond(r, 403, Deny("trial_expired").body)
    /\ UNCHANGED <<now, nextCus>>
    /\ UNCHANGED hookVars
    /\ UNCHANGED chatVars

\* the route handler of /api/new-thread or /api/chat runs and answers
RouteHandler(r, status) ==
    /\ pc[r] = "route"
    /\ Respond(r, status, "handler")
    /\ UNCHANGED <<now, store, nextCus>>
    /\ UNCHANGED hookVars
    /\ UNCHANGED chatVars

\* /api/create-payment-intent: await stripe.customers.create(...)
CreateCustomer(r, ok) ==
    /\ pc[r] = "createCustomer"
    /\ IF ok
       THEN /\ nextCus < Len(CustomerIds)
            /\ nextCus' = nextCus + 1
            /\ Goto(r, "saveCustomer",
                    [userRecord[r] EXCEPT !.stripeCustomerId = CustomerIds[nextCus + 1]],
                    loaded[r], uid[r])
       ELSE /\ nextCus' = nextCus
            /\ Respond(r, 500, "Failed to create payment intent.")
    /\ UNCHANGED <<now, store>>
    /\ UNCHANGED hookVars
    /\ UNCHANGED chatVars

\* /api/create-payment-intent: await user.save() of stripeCustomerId
SaveCustomer(r) ==
    /\ pc[r] = "saveCustomer"
    /\ store' = SaveDoc(store, uid[r], userRecord[r], loaded[r])
    /\ Goto(r, "createSubscription", userRecord[r], userRecord[r], uid[r])
    /\ UNCHANGED <<now, nextCus>>
    /\ UNCHANGED hookVars
    /\ UNCHANGED chatVars

\* /api/create-payment-intent: await stripe.subscriptions.create(...), then answer
CreateSubscription(r, ok) ==
    /\ pc[r] = "createSubscription"
    /\ IF ok THEN Respond(r, 200, "clientSecret")
       ELSE Respond(r, 500, "Failed to create payment intent.")
    /\ UNCHANGED <<now, store, nextCus>>
    /\ UNCHANGED hookVars
    /\ UNCHANGED chatVars

(***************************************************************************)
(* POST /api/chat: what the assistant service may answer                   *)
(***************************************************************************)
\* the most status polls of one turn that are followed
MaxPolls == 3
\* the most messages in a listed thread
MaxMsgs == 2

ThreadIds == {"th1", "th2"}
\* req.body of /api/chat on thread th: threadId and message, each possibly missing
BodiesOn(th) == {[threadId |-> t, message |-> m] : t \in {th, Null}, m \in {"hi", Null}}

\* required_action.submit_tool_outputs.tool_calls of a run that requires action
ToolCallLists ==
    {<<[id |-> "call1", name |-> "lookup_order"]>>,
     <<[id |-> "call1", name |-> "get_current_weather"], [id |-> "call2", name |-> "lookup_order"]>>,
     <<[id |-> "call1", name |-> "get_time"]>>}

LastErrors == {[code |-> "rate_limit_exceeded", message |-> "Rate limit reached"],
               [code |-> "server_error", message |-> "Sorry, something went wrong."]}

\* the run objects the service may return: the run of a thread, in each status
RunReplies ==
    {[id |-> "run1", thread_id |-> th, status |-> st,
      required_action |-> None, last_error |-> None] :
        th \in ThreadIds,
        st \in {"queued", "in_progress", "requires_action", "completed", "failed", "cancelled"}}
    \cup
    {[id |-> "run1", thread_id |-> th, status |-> "requires_action",
      required_action |-> Some(c), last_error |-> None] :
        th \in ThreadIds, c \in ToolCallLists}
    \cup
    {[id |-> "run1", thread_id |-> th, status |-> "failed",
      required_action |-> None, last_error |-> Some(e)] :
        th \in ThreadIds, e \in LastErrors}

TextPart(v) == [type |-> "text", value |-> v]
ImagePart == [type |-> "image_file", value |-> Null]

\* the messages a listed thread may hold: text messages of this run, the user's
\* message, a message of an earlier run, and messages of this run whose content is
\* an image, an image followed by text, or empty
MessageKinds ==
    {[role |-> "assistant", run_id |-> "run1", content |-> <<TextPart("A")>>],
     [role |-> "assistant", run_id |-> "run1", content |-> <<TextPart("B")>>],
     [role |-> "user", run_id |-> Null, content |-> <<TextPart("hi")>>],
     [role |-> "assistant", run_id |-> "run0", content |-> <<TextPart("old")>>],
     [role |-> "assistant", run_id |-> "run1", content |-> <<ImagePart>>],
     [role |-> "assistant", run_id |-> "run1", content |-> <<ImagePart, TextPart("C")>>],
     [role |-> "assistant", run_id |-> "run1", content |-> <<>>]}

\* messagesData.data: the thread's messages as the service lists them, newest first
MessageLists == UNION {[1..n -> MessageKinds] : n \in 0..MaxMsgs}

(***************************************************************************)
(* POST /api/chat: the handler's own computations                          *)
(***************************************************************************)
\* slip: a failed run is polled again
Polling_UntilCompleted(st) == st \in {"queued", "in_progress", "requires_action", "failed"}

\* slip: a run in progress is taken as finished
Polling_QueuedOnly(st) == st \in {"queued", "requires_action"}

\* the condition of the while loop
Polling(st) == st \in {"queued", "in_progress", "requires_action"}

\* new Date().toLocaleTimeString() at time t
ToLocaleTimeString(t) == IF t = 0 THEN "12:00:00 AM, day 0" ELSE "12:00:00 AM, later"

Placeholder == "Tool function executed successfully with dummy output."

\* slip: a tool the dispatcher does not know is answered with an error text
ToolOutput_UnknownIsError(call, t) ==
    [tool_call_id |-> call.id,
     output |-> IF call.name = "get_current_weather"
                THEN "{\"temperature\":22,\"unit\":\"celsius\",\"description\":\"Sunny\"}"
                ELSE IF call.name = "get_time" THEN ToLocaleTimeString(t)
                ELSE "Error: unknown tool"]

\* the body of the map over tool_calls
ToolOutput(call, t) ==
    [tool_call_id |-> call.id,
     output |-> IF call.name = "get_current_weather"
                THEN "{\"temperature\":22,\"unit\":\"celsius\",\"description\":\"Sunny\"}"
                ELSE IF call.name = "get_time" THEN ToLocaleTimeString(t)
                ELSE Placeholder]

\* slip: the outputs are submitted before the last call has been answered
ToolOutputs_WithoutLast(calls, t) == [i \in 1..(Len(calls) - 1) |-> ToolOutput(calls[i], t)]

\* Promise.all(tool_calls.map(...)): one output per call, in the order of the calls
ToolOutputs(calls, t) == [i \in DOMAIN calls |-> ToolOutput(calls[i], t)]

\* slip: the code and the message of last_error change places
FailurePayload_Swapped(rn) ==
    [threadId |-> Null, response |-> Null,
     details |-> IF rn.last_error # None THEN rn.last_error[1].code ELSE "Unknown failure",
     code |-> IF rn.last_error # None THEN rn.last_error[1].message ELSE "UNKNOWN_FAILURE"]

\* the JSON of the 500 answer for a failed run
FailurePayload(rn) ==
    [threadId |-> Null, response |-> Null,
     details |-> IF rn.last_error # None THEN rn.last_error[1].message ELSE "Unknown failure",
     code |-> IF rn.last_error # None THEN rn.last_error[1].code ELSE "UNKNOWN_FAILURE"]

\* the JSON of the 500 answer of the catch block for `throw new Error(msg)`
ErrorPayload(msg) ==
    [threadId |-> Null, response |-> Null, details |-> msg, code |-> "UNKNOWN_ERROR"]

Fallback ==
    "No response found from assistant for this request (it might still be processing or generated non-text output)."

\* reading msg.content[0].type throws when content is empty
TypeErrorMessage == "Cannot read properties of undefined (reading 'type')"

\* Array.prototype.find from position i on with the predicate of the handler: the position of
\* the first message the predicate accepts, 0 when it accepts none, -1 when it throws
RECURSIVE Scan(_, _, _)
Scan(list, id, i) ==
    IF i > Len(list) THEN 0
    ELSE IF list[i].role # "assistant" THEN Scan(list, id, i + 1)
    ELSE IF list[i].run_id # id THEN Scan(list, id, i + 1)
    ELSE IF list[i].content = <<>> THEN -1
    ELSE IF list[i].content[1].type = "text" THEN i
    ELSE Scan(list, id, i + 1)

\* slip: the scan keeps the last message it accepts instead of stopping at the first
FindReply_LastMatch(list, id) ==
    LET first == Scan(list, id, 1) IN
      IF first <= 0 THEN first
      ELSE CHOOSE i \in DOMAIN list :
             /\ Scan(list, id, i) = i
             /\ \A j \in (i + 1)..Len(list) : Scan(list, id, j) # j

\* messagesData.data.find(msg => msg.role === 'assistant' && msg.run_id === run.id
\*                              && msg.content[0].type === 'text')
FindReply(list, id) == Scan(list, id, 1)

(***************************************************************************)
(* POST /api/chat: the handler, one action per await                       *)
(***************************************************************************)
\* the handler goes on to the await named label
Await(r, label) == Goto(r, label, userRecord[r], loaded[r], uid[r])

\* the request to the assistant service named op is sent
Issue(r, op) == rpc' = [rpc EXCEPT ![r] = Append(@, op)]

\* slip: the error is swallowed and the request is answered 200
Catch_AnswersOk(r, msg) ==
    /\ Respond(r, 200, "response")
    /\ payload' = [payload EXCEPT ![r] = ErrorPayload(msg)]

\* the catch block: 500 with the message of the error thrown
Catch(r, msg) ==
    /\ Respond(r, 500, "Failed to get assistant response")
    /\ payload' = [payload EXCEPT ![r] = ErrorPayload(msg)]

\* slip: `run` is declared outside the handler, one variable for all requests
LoopOrLeave_SharedRun(r, rn) ==
    /\ run' = [q \in Reqs |-> rn]
    /\ IF Polling(rn.status)
       THEN /\ Await(r, "sleep")
            /\ UNCHANGED <<rpc, payload>>
       ELSE IF rn.status = "failed"
       THEN /\ Respond(r, 500, "Assistant processing failed.")
            /\ payload' = [payload EXCEPT ![r] = FailurePayload(rn)]
            /\ UNCHANGED rpc
       ELSE /\ Await(r, "listMessages")
            /\ Issue(r, "listMessages")
            /\ UNCHANGED payload

\* `run = await runResponse.json()` with rn, then the loop condition and, when the
\* loop is left, the code up to fetch(listMessagesUrl)
LoopOrLeave(r, rn) ==
    /\ run' = [run EXCEPT ![r] = rn]
    /\ IF Polling(rn.status)
       THEN /\ Await(r, "sleep")
            /\ UNCHANGED <<rpc, payload>>
       ELSE IF rn.status = "failed"
       THEN /\ Respond(r, 500, "Assistant processing failed.")
            /\ payload' = [payload EXCEPT ![r] = FailurePayload(rn)]
            /\ UNCHANGED rpc
       ELSE /\ Await(r, "listMessages")
            /\ Issue(r, "listMessages")
            /\ UNCHANGED payload

(***************************************************************************)
(* POST /api/new-thread                                                    *)
(***************************************************************************)
\* the handler starts: fetch(threadCreationUrl)
NewThreadBegin(r) ==
    /\ pc[r] = "route"
    /\ route[r] = "new-thread"
    /\ Await(r, "createThread")
    /\ Issue(r, "createThread")
    /\ UNCHANGED <<now, store, nextCus, reqBody, run, toolOutputs, messages, payload>>
    /\ UNCHANGED hookVars

\* the thread POST returns: throw when not ok, else 200 with the id of the new thread
CreateThreadReturns(r, ok, th) ==
    /\ pc[r] = "createThread"
    /\ IF ok
       THEN /\ Respond(r, 200, "threadId")
            /\ payload' = [payload EXCEPT ![r] = [NoPayload EXCEPT !.threadId = th]]
       ELSE /\ Respond(r, 500, "Failed to create thread on server")
            /\ payload' = [payload EXCEPT ![r] = ErrorPayload("Failed to create thread")]
    /\ UNCHANGED <<now, store, nextCus, reqBody, run, rpc, toolOutputs, messages>>
    /\ UNCHANGED hookVars

(***************************************************************************)
(* POST /api/chat                                                          *)
(***************************************************************************)
\* slip: only the thread reference is required
MissingFields_ThreadOnly(b) == b.threadId = Null

\* !threadId || !message
MissingFields(b) == b.threadId = Null \/ b.message = Null

\* the handler starts: 400 when a field is missing, else fetch(addMessageUrl)
ChatBegin(r) ==
    /\ pc[r] = "route"
    /\ route[r] = "chat"
    /\ IF MissingFields(reqBody[r])
       THEN /\ Respond(r, 400, "threadId and message are required")
            /\ UNCHANGED rpc
       ELSE /\ Await(r, "addMessage")
            /\ Issue(r, "addMessage")
    /\ UNCHANGED <<now, store, nextCus, reqBody, run, toolOutputs, messages, payload>>
    /\ UNCHANGED hookVars

\* the message POST returns: throw when not ok, else fetch(createRunUrl)
AddMessageReturns(r, ok) ==
    /\ pc[r] = "addMessage"
    /\ IF ok
       THEN /\ Await(r, "createRun")
            /\ Issue(r, "createRun")
            /\ UNCHANGED payload
       ELSE /\ Catch(r, "Failed to add message")
            /\ UNCHANGED rpc
    /\ UNCHANGED <<now, store, nextCus, reqBody, run, toolOutputs, messages>>
    /\ UNCHANGED hookVars

\* the run POST returns the run of the thread of the URL: throw when not ok, else
\* run = the reply and the loop is entered
CreateRunReturns(r, ok, rn) ==
    /\ pc[r] = "createRun"
    /\ rn.thread_id = reqBody[r].threadId
    /\ IF ok
       THEN LoopOrLeave(r, rn)
       ELSE /\ Catch(r, "Failed to create run")
            /\ UNCHANGED <<rpc, run>>
    /\ UNCHANGED <<now, store, nextCus, reqBody, toolOutputs, messages>>
    /\ UNCHANGED hookVars

\* the timer of the loop body fires: fetch(retrieveRunUrl)
Wake(r) ==
    /\ pc[r] = "sleep"
    /\ Cardinality({i \in DOMAIN rpc[r] : rpc[r][i] = "getRun"}) < MaxPolls
    /\ Await(r, "getRun")
    /\ Issue(r, "getRun")
    /\ UNCHANGED <<now, store, nextCus, reqBody, run, toolOutputs, messages, payload>>
    /\ UNCHANGED hookVars

\* the run GET returns the run of the URL: throw when not ok; run = the reply; with tool calls to answer
\* the outputs are computed and awaited, else the loop condition is tested
GetRunReturns(r, ok, rn) ==
    /\ pc[r] = "getRun"
    /\ rn.thread_id = run[r].thread_id
    /\ rn.id = run[r].id
    /\ IF ~ok
       THEN /\ Catch(r, "Failed to retrieve run")
            /\ UNCHANGED <<rpc, run, toolOutputs>>
       ELSE IF rn.status = "requires_action" /\ rn.required_action # None
       THEN /\ run' = [run EXCEPT ![r] = rn]
            /\ toolOutputs' = [toolOutputs EXCEPT ![r] = ToolOutputs(rn.required_action[1], now)]
            /\ Await(r, "toolOutputs")
            /\ UNCHANGED <<rpc, payload>>
       ELSE /\ LoopOrLeave(r, rn)
            /\ UNCHANGED toolOutputs
    /\ UNCHANGED <<now, store, nextCus, reqBody, messages>>
    /\ UNCHANGED hookVars

\* Promise.all has resolved: fetch(submitToolOutputsUrl) with all the outputs
SubmitToolOutputs(r) ==
    /\ pc[r] = "toolOutputs"
    /\ Await(r, "submit")
    /\ Issue(r, "submit")
    /\ UNCHANGED <<now, store, nextCus, reqBody, run, toolOutputs, messages, payload>>
    /\ UNCHANGED hookVars

\* the submit POST returns: throw when not ok; run = the reply; the loop condition
SubmitReturns(r, ok, rn) ==
    /\ pc[r] = "submit"
    /\ rn.thread_id = run[r].thread_id
    /\ rn.id = run[r].id
    /\ IF ok
       THEN LoopOrLeave(r, rn)
       ELSE /\ Catch(r, "Failed to submit tool outputs")
            /\ UNCHANGED <<rpc, run>>
    /\ UNCHANGED <<now, store, nextCus, reqBody, toolOutputs, messages>>
    /\ UNCHANGED hookVars

\* the messages GET returns: throw when not ok; find the reply and answer
ListReturns(r, ok, list) ==
    /\ pc[r] = "listMessages"
    /\ IF ~ok
       THEN /\ Catch(r, "Failed to retrieve messages")
            /\ UNCHANGED messages
       ELSE /\ messages' = [messages EXCEPT ![r] = list]
            /\ LET i == FindReply(list, run[r].id) IN
                 IF i = -1 THEN Catch(r, TypeErrorMessage)
                 ELSE /\ Respond(r, 200, "response")
                      /\ payload' = [payload EXCEPT ![r] =
                            [threadId |-> Null,
                             response |-> IF i = 0 THEN Fallback ELSE list[i].content[1].value,
                             details |-> Null, code |-> Null]]
    /\ UNCHANGED <<now, store, nextCus, reqBody, run, rpc, toolOutputs>>
    /\ UNCHANGED hookVars

(***************************************************************************)
(* POST /api/webhook                                                       *)
(***************************************************************************)
HookRespond(h, status, body) ==
    /\ hpc' = [hpc EXCEPT ![h] = "done"]
    /\ hresp' = [hresp EXCEPT ![h] = [status |-> status, body |-> body]]
    /\ huser' = [huser EXCEPT ![h] = NoUser]
    /\ hloaded' = [hloaded EXCEPT ![h] = NoUser]

\* slip: the event is handled whatever constructEvent says
Deliver_IgnoresSignature(h, e, sigOk) ==
    /\ hpc[h] \in {"idle", "done"}
    /\ huid' = [huid EXCEPT ![h] = 0]
    /\ hevent' = [hevent EXCEPT ![h] = e]
    /\ IF LooksUpUser(e)
       THEN /\ hpc' = [hpc EXCEPT ![h] = "find"]
            /\ hresp' = [hresp EXCEPT ![h] = NoResp]
            /\ UNCHANGED <<huser, hloaded>>
       ELSE HookRespond(h, 200, "received")
    /\ UNCHANGED <<now, store, nextCus>>
    /\ UNCHANGED reqVars
    /\ UNCHANGED chatVars

\* constructEvent and the switch up to its first await
Deliver(h, e, sigOk) ==
    /\ hpc[h] \in {"idle", "done"}
    /\ huid' = [huid EXCEPT ![h] = 0]
    /\ IF ~sigOk
       THEN /\ hevent' = [hevent EXCEPT ![h] = NoEvent]
            /\ HookRespond(h, 400, "Webhook Error")
       ELSE /\ hevent' = [hevent EXCEPT ![h] = e]
            /\ IF LooksUpUser(e)
               THEN /\ hpc' = [hpc EXCEPT ![h] = "find"]
                    /\ hresp' = [hresp EXCEPT ![h] = NoResp]
                    /\ UNCHANGED <<huser, hloaded>>
               ELSE HookRespond(h, 200, "received")
    /\ UNCHANGED <<now, store, nextCus>>
    /\ UNCHANGED reqVars
    /\ UNCHANGED chatVars

\* after User.findOne({ stripeCustomerId }): change the document, or drop the event
HookFind(h) ==
    /\ hpc[h] = "find"
    /\ LET i == FindByCustomer(store, hevent[h].customer) IN
         IF i = 0
         THEN /\ HookRespond(h, 200, "received")
              /\ huid' = huid
         ELSE /\ hpc' = [hpc EXCEPT ![h] = "save"]
              /\ huser' = [huser EXCEPT ![h] = Reconcile(store[i], hevent[h])]
              /\ hloaded' = [hloaded EXCEPT ![h] = store[i]]
              /\ huid' = [huid EXCEPT ![h] = i]
              /\ hresp' = hresp
    /\ UNCHANGED <<now, store, nextCus, hevent>>
    /\ UNCHANGED reqVars
    /\ UNCHANGED chatVars

\* await user.save(), then res.json({ received: true })
HookSave(h) ==
    /\ hpc[h] = "save"
    /\ store' = SaveDoc(store, huid[h], huser[h], hloaded[h])
    /\ HookRespond(h, 200, "received")
    /\ UNCHANGED <<now, nextCus, hevent, huid>>
    /\ UNCHANGED reqVars
    /\ UNCHANGED chatVars

\* slip: an error of the store ends the delivery with a 500
StoreErrorSwallowed_Answers500(h) ==
    /\ store' = store
    /\ HookRespond(h, 500, "error")
    /\ UNCHANGED <<now, nextCus, hevent, huid>>
    /\ UNCHANGED reqVars
    /\ UNCHANGED chatVars

\* the catch of a case: the error is logged, then break and res.json({ received: true })
StoreErrorSwallowed(h) ==
    /\ store' = store
    /\ HookRespond(h, 200, "received")
    /\ UNCHANGED <<now, nextCus, hevent, huid>>
    /\ UNCHANGED reqVars
    /\ UNCHANGED chatVars

\* User.findOne({ stripeCustomerId }) rejects
HookFindFails(h) ==
    /\ hpc[h] = "find"
    /\ StoreErrorSwallowed(h)

\* user.save() rejects: nothing is written
HookSaveFails(h) ==
    /\ hpc[h] = "save"
    /\ StoreErrorSwallowed(h)

(***************************************************************************)
(* Time passes                                                             *)
(***************************************************************************)
Tick ==
    /\ \E t \in Instants : t > now /\ now' = t
    /\ UNCHANGED <<store, nextCus>>
    /\ UNCHANGED reqVars
    /\ UNCHANGED hookVars
    /\ UNCHANGED chatVars

\* the requests a client may send: identity, token claims, endpoint, body
CallsWith(I, C, RT, B) ==
    {[sub |-> a, claims |-> c, route |-> rt, body |-> b] : a \in I, c \in C, rt \in RT, b \in B}

\* requests whose body no handler reads
Calls(I, C, RT) == CallsWith(I, C, RT, {NoBody})

\* the steps of requests R drawn from the calls K, and of deliveries H of events E
NextOver(R, K, H, E) ==
    \/ \E r \in R, k \in K : Start(r, k.sub, k.claims, k.route, k.body)
    \/ \E r \in R : EnsureFind(r)
    \/ \E r \in R : EnsureInsert(r)
    \/ \E r \in R : EnsureUpdate(r)
    \/ \E r \in R : GateSaveExpired(r)
    \/ \E r \in R, status \in {200, 500} : RouteHandler(r, status)
    \/ \E r \in R, ok \in BOOLEAN : CreateCustomer(r, ok)
    \/ \E r \in R : SaveCustomer(r)
    \/ \E r \in R, ok \in BOOLEAN : CreateSubscription(r, ok)
    \/ \E h \in H, e \in E, sigOk \in BOOLEAN : Deliver(h, e, sigOk)
    \/ \E h \in H : HookFind(h)
    \/ \E h \in H : HookSave(h)
    \/ Tick

\* one identity, every endpoint; one request at a time, interleaved with one
\* webhook delivery
MainCalls == Calls({"u1"}, ClaimSet, Routes)

\* every event for the first customer, one event for a customer no record has
MainEvents ==
    {e \in Events : e.customer = CustomerIds[1]}
        \cup {e \in Events : e.customer = CustomerIds[2] /\ e.status = "active"}

Next == NextOver({"r1"}, MainCalls, Hooks, MainEvents)

Spec == Init /\ [][Next]_vars

(***************************************************************************)
(* Two identities, every endpoint; the one event that makes a record       *)
(* premium                                                                 *)
(***************************************************************************)
TwoCalls == Calls(Identities, ClaimSet, Routes)

TwoEvents == {e \in Events : e.customer = CustomerIds[1] /\ e.status = "active"}

NextTwo == NextOver({"r1"}, TwoCalls, Hooks, TwoEvents)

SpecTwo == Init /\ [][NextTwo]_vars

(***************************************************************************)
(* A collection that may already hold a record when the server starts:     *)
(* any document the schema accepts for the first identity                  *)
(***************************************************************************)
SchemaDocs ==
    {[auth0Id |-> "u1", email |-> Null, name |-> Null, planStatus |-> p,
      trialEndsAt |-> t, stripeCustomerId |-> Null, stripeSubscriptionId |-> Null] :
        p \in PlanEnum, t \in {None, Some(0), Some(TrialDays)}}

InitSchema ==
    /\ now = 0
    /\ store \in {<<>>} \cup {<<d>> : d \in SchemaDocs}
    /\ nextCus = 0
    /\ InitRequests

SchemaCalls == Calls({"u1"}, {[email |-> Null, name |-> Null]}, Routes)

SchemaEvents ==
    {e \in Events : e.customer = CustomerIds[1] /\ e.status \in {"active", "canceled"}}

NextSchema == NextOver({"r1"}, SchemaCalls, Hooks, SchemaEvents)

SpecSchema == InitSchema /\ [][NextSchema]_vars

(***************************************************************************)
(* One identity that opens threads and chats: the gate, then the handler   *)
(* against every behaviour of the assistant service                        *)
(***************************************************************************)
ChatCalls ==
    CallsWith({"u1"}, {[email |-> "e", name |-> "n"]}, {"chat"}, BodiesOn("th1"))
        \cup Calls({"u1"}, {[email |-> "e", name |-> "n"]}, {"new-thread"})

NextChat ==
    \/ \E k \in ChatCalls : Start("r1", k.sub, k.claims, k.route, k.body)
    \/ EnsureFind("r1")
    \/ EnsureInsert("r1")
    \/ EnsureUpdate("r1")
    \/ GateSaveExpired("r1")
    \/ NewThreadBegin("r1")
    \/ \E ok \in BOOLEAN, th \in ThreadIds : CreateThreadReturns("r1", ok, th)
    \/ ChatBegin("r1")
    \/ \E ok \in BOOLEAN : AddMessageReturns("r1", ok)
    \/ \E ok \in BOOLEAN, rn \in RunReplies : CreateRunReturns("r1", ok, rn)
    \/ Wake("r1")
    \/ \E ok \in BOOLEAN, rn \in RunReplies : GetRunReturns("r1", ok, rn)
    \/ SubmitToolOutputs("r1")
    \/ \E ok \in BOOLEAN, rn \in RunReplies : SubmitReturns("r1", ok, rn)
    \/ \E ok \in BOOLEAN, list \in MessageLists : ListReturns("r1", ok, list)
    \/ Tick

SpecChat == Init /\ [][NextChat]_vars

(***************************************************************************)
(* Two turns at once: two users, each on a thread of their own, records    *)
(* in trial, the time not advancing; a run answers in progress, requires   *)
(* action (one call), completed or failed, a thread lists at most one      *)
(* message                                                                 *)
(***************************************************************************)
\* the turn each request carries
TurnOf ==
    [r1 |-> [sub |-> "u1", claims |-> {[email |-> "e", name |-> "n"]},
             body |-> [threadId |-> "th1", message |-> "hi"]],
     r2 |-> [sub |-> "u2", claims |-> ClaimSet,
             body |-> [threadId |-> "th2", message |-> "hi"]]]

FewRuns ==
    {rn \in RunReplies :
        /\ rn.last_error = None
        /\ \/ rn.status \in {"in_progress", "completed", "failed"}
           \/ rn.required_action = Some(<<[id |-> "call1", name |-> "get_time"]>>)}

FewLists ==
    {list \in MessageLists :
        Len(list) <= 1 /\ \A i \in DOMAIN list : list[i].content \in {<<TextPart("A")>>, <<>>}}

NextChatTwo ==
    \/ \E r \in Reqs : \E c \in TurnOf[r].claims : Start(r, TurnOf[r].sub, c, "chat", TurnOf[r].body)
    \/ \E r \in Reqs : EnsureFind(r)
    \/ \E r \in Reqs : EnsureInsert(r)
    \/ \E r \in Reqs : EnsureUpdate(r)
    \/ \E r \in Reqs : ChatBegin(r)
    \/ \E r \in Reqs, ok \in BOOLEAN : AddMessageReturns(r, ok)
    \/ \E r \in Reqs, ok \in BOOLEAN, rn \in FewRuns : CreateRunReturns(r, ok, rn)
    \/ \E r \in Reqs : Wake(r)
    \/ \E r \in Reqs, ok \in BOOLEAN, rn \in FewRuns : GetRunReturns(r, ok, rn)
    \/ \E r \in Reqs : SubmitToolOutputs(r)
    \/ \E r \in Reqs, ok \in BOOLEAN, rn \in FewRuns : SubmitReturns(r, ok, rn)
    \/ \E r \in Reqs, ok \in BOOLEAN, list \in FewLists : ListReturns(r, ok, list)

SpecChatTwo == Init /\ [][NextChatTwo]_vars

(***************************************************************************)
(* Two payment flows of one user at once                                   *)
(***************************************************************************)
PayCalls == Calls({"u1"}, {[email |-> "e", name |-> "n"]}, {"create-payment-intent"})

NextPay ==
    \/ \E r \in Reqs, k \in PayCalls : Start(r, k.sub, k.claims, k.route, k.body)
    \/ \E r \in Reqs : EnsureFind(r)
    \/ \E r \in Reqs : EnsureInsert(r)
    \/ \E r \in Reqs : EnsureUpdate(r)
    \/ \E r \in Reqs, ok \in BOOLEAN : CreateCustomer(r, ok)
    \/ \E r \in Reqs : SaveCustomer(r)
    \/ \E r \in Reqs, ok \in BOOLEAN : CreateSubscription(r, ok)

SpecPay == Init /\ [][NextPay]_vars

(***************************************************************************)
(* Two requests of one identity at once, from its first request on         *)
(***************************************************************************)
FirstCalls ==
    Calls({"u1"}, {[email |-> "e", name |-> "n"]},
          {"user-status", "create-payment-intent", "new-thread"})

NextFirst ==
    \/ \E r \in Reqs, k \in FirstCalls : Start(r, k.sub, k.claims, k.route, k.body)
    \/ \E r \in Reqs : EnsureFind(r)
    \/ \E r \in Reqs : EnsureInsert(r)
    \/ \E r \in Reqs : EnsureUpdate(r)
    \/ \E r \in Reqs : GateSaveExpired(r)
    \/ \E r \in Reqs, status \in {200, 500} : RouteHandler(r, status)
    \/ \E r \in Reqs, ok \in BOOLEAN : CreateCustomer(r, ok)
    \/ \E r \in Reqs : SaveCustomer(r)
    \/ \E r \in Reqs, ok \in BOOLEAN : CreateSubscription(r, ok)
    \/ Tick

SpecFirst == Init /\ [][NextFirst]_vars

(***************************************************************************)
(* Deliveries against a store whose calls may fail: a user starts a        *)
(* payment flow, events for the customer are delivered, and every          *)
(* continuation of the webhook handler runs                                *)
(***************************************************************************)
FailCalls == Calls({"u1"}, {[email |-> "e", name |-> "n"]}, {"create-payment-intent"})

FailEvents == {e \in Events : e.customer = CustomerIds[1]}

\* the continuations of the webhook handler after an await
HookStep(h) ==
    \/ HookFind(h)
    \/ HookFindFails(h)
    \/ HookSave(h)
    \/ HookSaveFails(h)

NextHookFail ==
    \/ \E k \in FailCalls : Start("r1", k.sub, k.claims, k.route, k.body)
    \/ EnsureFind("r1")
    \/ EnsureInsert("r1")
    \/ EnsureUpdate("r1")
    \/ \E ok \in BOOLEAN : CreateCustomer("r1", ok)
    \/ SaveCustomer("r1")
    \/ \E ok \in BOOLEAN : CreateSubscription("r1", ok)
    \/ \E h \in Hooks, e \in FailEvents, sigOk \in BOOLEAN : Deliver(h, e, sigOk)
    \/ \E h \in Hooks : HookStep(h)

SpecHookFail ==
    Init /\ [][NextHookFail]_vars /\ \A h \in Hooks : WF_vars(HookStep(h))

(***************************************************************************)
(* A thread of one user and a turn of another: the first request slot      *)
(* carries the /api/new-thread requests of u1, the second the /api/chat    *)
(* requests of u2, on either thread                                        *)
(***************************************************************************)
\* req.auth.payload.sub of the requests of each slot
CallerOf == [r1 |-> "u1", r2 |-> "u2"]

ThreadCalls ==
    [r1 |-> Calls({CallerOf["r1"]}, {[email |-> "e", name |-> "n"]}, {"new-thread"}),
     r2 |-> CallsWith({CallerOf["r2"]}, {[email |-> "e", name |-> "n"]}, {"chat"},
                      {[threadId |-> th, message |-> "hi"] : th \in ThreadIds})]

NextThreads ==
    \/ \E r \in Reqs : \E k \in ThreadCalls[r] : Start(r, k.sub, k.claims, k.route, k.body)
    \/ \E r \in Reqs : EnsureFind(r)
    \/ \E r \in Reqs : EnsureInsert(r)
    \/ \E r \in Reqs : EnsureUpdate(r)
    \/ \E r \in Reqs : NewThreadBegin(r)
    \/ \E r \in Reqs, ok \in BOOLEAN, th \in ThreadIds : CreateThreadReturns(r, ok, th)
    \/ \E r \in Reqs : ChatBegin(r)
    \/ \E r \in Reqs, ok \in BOOLEAN : AddMessageReturns(r, ok)
    \/ \E r \in Reqs, ok \in BOOLEAN, rn \in FewRuns : CreateRunReturns(r, ok, rn)
    \/ \E r \in Reqs : Wake(r)
    \/ \E r \in Reqs, ok \in BOOLEAN, rn \in FewRuns : GetRunReturns(r, ok, rn)
    \/ \E r \in Reqs : SubmitToolOutputs(r)
    \/ \E r \in Reqs, ok \in BOOLEAN, rn \in FewRuns : SubmitReturns(r, ok, rn)
    \/ \E r \in Reqs, ok \in BOOLEAN, list \in FewLists : ListReturns(r, ok, list)

SpecThreads == Init /\ [][NextThreads]_vars

(***************************************************************************)
(* A returning user whose token claims differ from what is stored: the     *)
(* collection holds a record of the first identity, with or without email  *)
(* and name, in any plan, with or without a billing customer               *)
(***************************************************************************)
ClaimDocs ==
    {[auth0Id |-> "u1", email |-> e, name |-> n, planStatus |-> p,
      trialEndsAt |-> t, stripeCustomerId |-> c, stripeSubscriptionId |-> Null] :
        e \in {Null, "e"}, n \in {Null, "n"}, p \in PlanEnum,
        t \in {None, Some(TrialDays)}, c \in {Null, CustomerIds[1]}}

InitClaims ==
    /\ now = 0
    /\ store \in {<<>>} \cup {<<d>> : d \in ClaimDocs}
    /\ nextCus = 0
    /\ InitRequests

\* the claims of a token: none, those of ClaimSet, or another email and name
WideClaims == ClaimSet \cup {[email |-> "e2", name |-> "n2"]}

ClaimCalls == Calls({"u1"}, WideClaims, {"user-status"})

NextClaims ==
    \/ \E k \in ClaimCalls : Start("r1", k.sub, k.claims, k.route, k.body)
    \/ EnsureFind("r1")
    \/ EnsureInsert("r1")
    \/ EnsureUpdate("r1")

SpecClaims == InitClaims /\ [][NextClaims]_vars

(***************************************************************************)
(* The same, with a run that ends and a handler that is scheduled: the     *)
(* service reports completed or failed at the latest at the last poll that *)
(* is followed, every call returns, and every continuation of the handler  *)
(* runs; the thread lists at most one message                              *)
(***************************************************************************)
\* the run object rn may be the answer to the poll of r that is under way
RunEnds(r, rn) ==
    Cardinality({i \in DOMAIN rpc[r] : rpc[r][i] = "getRun"}) = MaxPolls
        => rn.status \in {"completed", "failed"}

\* the run GET returns, of a run that ends
GetRunOfEndingRun(r, ok, rn) ==
    /\ RunEnds(r, rn)
    /\ GetRunReturns(r, ok, rn)

\* the continuations of the handlers of request r after an await, the listed
\* messages being drawn from L
HandlerStep(r, L) ==
    \/ EnsureFind(r)
    \/ EnsureInsert(r)
    \/ EnsureUpdate(r)
    \/ GateSaveExpired(r)
    \/ NewThreadBegin(r)
    \/ \E ok \in BOOLEAN, th \in ThreadIds : CreateThreadReturns(r, ok, th)
    \/ ChatBegin(r)
    \/ \E ok \in BOOLEAN : AddMessageReturns(r, ok)
    \/ \E ok \in BOOLEAN, rn \in RunReplies : CreateRunReturns(r, ok, rn)
    \/ Wake(r)
    \/ \E ok \in BOOLEAN, rn \in RunReplies : GetRunOfEndingRun(r, ok, rn)
    \/ SubmitToolOutputs(r)
    \/ \E ok \in BOOLEAN, rn \in RunReplies : SubmitReturns(r, ok, rn)
    \/ \E ok \in BOOLEAN, list \in L : ListReturns(r, ok, list)

\* the lists of at most one message
ShortLists == {list \in MessageLists : Len(list) <= 1}

NextChatLive ==
    \/ \E k \in ChatCalls : Start("r1", k.sub, k.claims, k.route, k.body)
    \/ HandlerStep("r1", ShortLists)
    \/ Tick

SpecChatLive == Init /\ [][NextChatLive]_vars /\ WF_vars(HandlerStep("r1", ShortLists))

(***************************************************************************)
(* Vocabulary of the properties                                            *)
(***************************************************************************)
\* this step is a step of request r
StepOf(r) == pc'[r] # pc[r]

\* this step is a step of webhook delivery h
HookStepOf(h) == hpc'[h] # hpc[h] \/ hevent'[h] # hevent[h]

\* in this step ensureUserExists of r calls next() and checkUserPlan runs on userRecord[r]
GateRuns(r) ==
    /\ StepOf(r)
    /\ route[r] \in Protected
    /\ \/ pc[r] = "saveUser"
       \/ pc[r] = "insert" /\ UniqueOk(store, userRecord[r].auth0Id)

\* no document is added and no entitlement field of a stored document changes
PlanUnchanged ==
    /\ Len(store') = Len(store)
    /\ \A i \in DOMAIN store : \A f \in PlanFields : store'[i][f] = store[i][f]

\* the trial of document u is over at time t
TrialPassed(u, t) == u.trialEndsAt # None /\ u.trialEndsAt[1] < t

\* the whole webhook handler for event e on collection s, run without interruption
Apply(s, e) ==
    LET i == FindByCustomer(s, e.customer) IN
      IF LooksUpUser(e) /\ i # 0 THEN SaveDoc(s, i, Reconcile(s[i], e), s[i]) ELSE s

(***************************************************************************)
(* Properties of ensureUserExists and checkUserPlan                        *)
(***************************************************************************)
\* C1: for an identity with no stored record ensureUserExists builds a record with
\* planStatus = trial and trialEndsAt = creation time + 7 days and inserts exactly
\* that record; a later call for the same identity gets the stored record, adds no
\* record and leaves planStatus and trialEndsAt of every record as they were; no
\* identity ever has two records.
C1_GetOrCreate ==
    [][\A r \in Reqs :
        LET i == FindByAuth0Id(store, auth[r].sub) IN
        /\ (pc[r] = "findUser" /\ StepOf(r) /\ i = 0) =>
              /\ pc'[r] = "insert"
              /\ userRecord'[r].auth0Id = auth[r].sub
              /\ userRecord'[r].planStatus = "trial"
              /\ userRecord'[r].trialEndsAt = Some(now + TrialDays)
              /\ store' = store
        /\ (pc[r] = "insert" /\ StepOf(r) /\ i = 0) =>
              store' = Append(store, userRecord[r])
        /\ (pc[r] = "findUser" /\ StepOf(r) /\ i # 0) =>
              /\ pc'[r] = "saveUser"
              /\ uid'[r] = i
              /\ store[i].auth0Id = auth[r].sub
              /\ userRecord'[r].planStatus = store[i].planStatus
              /\ userRecord'[r].trialEndsAt = store[i].trialEndsAt
              /\ store' = store
        /\ (pc[r] = "saveUser" /\ StepOf(r)) => PlanUnchanged
        /\ \A j, k \in DOMAIN store' : store'[j].auth0Id = store'[k].auth0Id => j = k
      ]_vars

\* a later request of the identity that was the second to be seen, at the last
\* instant, has found its record
C1_Witness ==
    \E r \in Reqs :
        /\ pc[r] = "saveUser"
        /\ uid[r] = 2
        /\ store[uid[r]].auth0Id = auth[r].sub
        /\ store[uid[r]].planStatus = "trial"
        /\ store[uid[r]].trialEndsAt = Some(MaxTime + TrialDays)

\* C2: when checkUserPlan runs on a record with planStatus = trial whose trialEndsAt
\* is earlier than now, the request is answered 403 with the trial-expired message
\* and the stored record then has planStatus = expired.
C2_TrialExpiredDenied ==
    [][\A r \in Reqs :
        /\ (GateRuns(r) /\ userRecord[r].planStatus = "trial"
                /\ TrialPassed(userRecord[r], now)) =>
              /\ pc'[r] = "saveExpired"
              /\ uid'[r] # 0
              /\ store'[uid'[r]].auth0Id = auth[r].sub
        /\ (pc[r] = "saveExpired" /\ StepOf(r)) =>
              /\ pc'[r] = "done"
              /\ resp'[r] = Deny("trial_expired")
              /\ store'[uid[r]].planStatus = "expired"
      ]_vars

\* a request has been denied for its expired trial and the record reads expired
C2_Witness ==
    \E r \in Reqs, i \in DOMAIN store :
        /\ pc[r] = "done"
        /\ resp[r] = Deny("trial_expired")
        /\ store[i].planStatus = "expired"
        /\ store[i].trialEndsAt = Some(TrialDays)

\* C3: a protected request for an existing record with planStatus = trial and
\* trialEndsAt later than now is allowed, and none of its steps changes an entitlement
\* field (planStatus, trialEndsAt, billing references) of a stored record.
C3_ActiveTrialAllowed ==
    [][\A r \in Reqs :
        /\ (GateRuns(r) /\ pc[r] = "saveUser" /\ userRecord[r].planStatus = "trial"
                /\ userRecord[r].trialEndsAt # None
                /\ userRecord[r].trialEndsAt[1] > now) =>
              /\ pc'[r] = "route"
              /\ PlanUnchanged
        /\ (StepOf(r) /\ route[r] \in Protected /\ pc[r] \in {"findUser", "route"}) =>
              store' = store
        /\ (StepOf(r) /\ pc[r] = "route") => resp'[r].status # 403
      ]_vars

\* a protected request of a trial user who already has a billing customer was allowed
C3_Witness ==
    \E r \in Reqs :
        /\ pc[r] = "route"
        /\ userRecord[r].planStatus = "trial"
        /\ userRecord[r].trialEndsAt # None
        /\ userRecord[r].trialEndsAt[1] > now
        /\ userRecord[r].stripeCustomerId # Null
        /\ store[uid[r]] = userRecord[r]

\* the records checkUserPlan lets through: a trial that has not passed, or premium
Entitled(u, t) ==
    \/ u.planStatus = "trial" /\ ~TrialPassed(u, t)
    \/ u.planStatus = "premium"

\* C4: checkUserPlan lets a request reach its route handler if and only if the record
\* is a trial that has not passed or is premium; for every other planStatus (expired,
\* free, ...) the request is answered 403 and never reaches the route handler.
C4_AllowIff ==
    [][\A r \in Reqs :
        /\ GateRuns(r) =>
              /\ pc'[r] = "route" <=> Entitled(userRecord[r], now)
              /\ ~Entitled(userRecord[r], now) =>
                    \/ pc'[r] = "saveExpired"
                    \/ pc'[r] = "done" /\ resp'[r].status = 403
        /\ (pc[r] = "saveExpired" /\ StepOf(r)) =>
              pc'[r] = "done" /\ resp'[r].status = 403
        /\ (pc'[r] = "route" /\ pc[r] # "route") => GateRuns(r)
      ]_vars

\* a request for a stored record with planStatus = free has been denied
C4_Witness ==
    \E r \in Reqs, i \in DOMAIN store :
        /\ pc[r] = "done"
        /\ resp[r] = Deny("unknown")
        /\ store[i].planStatus = "free"

\* C5: the only change a protected request's middleware makes to the plan state of a
\* stored record is the trial-expiry write (planStatus of the request's record becomes
\* expired); when checkUserPlan runs on a record that is already expired it writes
\* nothing, leaves the record as it is and denies with 403.
C5_ExpiryWriteOnly ==
    [][\A r \in Reqs :
        /\ (StepOf(r) /\ route[r] \in Protected /\ pc[r] # "insert") =>
              \/ PlanUnchanged
              \/ /\ pc[r] = "saveExpired"
                 /\ Len(store') = Len(store)
                 /\ \A i \in DOMAIN store :
                       IF i = uid[r]
                       THEN store'[i] = [store[i] EXCEPT !.planStatus = "expired"]
                       ELSE store'[i] = store[i]
        /\ (GateRuns(r) /\ userRecord[r].planStatus = "expired") =>
              /\ pc'[r] = "done"
              /\ resp'[r] = Deny("plan_expired")
              /\ PlanUnchanged
      ]_vars

\* a request was denied for a record that only the gate can have expired
C5_Witness ==
    \E r \in Reqs, i \in DOMAIN store :
        /\ pc[r] = "done"
        /\ resp[r] = Deny("plan_expired")
        /\ store[i].planStatus = "expired"
        /\ store[i].stripeCustomerId = Null

(***************************************************************************)
(* Properties of the webhook's event switch                                *)
(***************************************************************************)
\* in this step delivery h saves, for the customer of record i, a subscription
\* created/updated event whose status is one of sts
AppliesSubscription(h, i, sts) ==
    /\ hpc[h] = "save"
    /\ hpc'[h] = "done"
    /\ huid[h] = i
    /\ hevent[h].type \in {"customer.subscription.created", "customer.subscription.updated"}
    /\ hevent[h].status \in sts
    /\ hevent[h].customer = store[i].stripeCustomerId

\* C6 as claimed: a record leaves planStatus = expired only in a step that applies a
\* successful-payment event (a subscription event with status active) for its customer.
C6_OnlyPaymentLeavesExpired ==
    [][\A i \in DOMAIN store :
        (store[i].planStatus = "expired" /\ store'[i].planStatus # "expired") =>
            \E h \in Hooks : AppliesSubscription(h, i, {"active"})
      ]_vars

\* C6 amended: a record leaves planStatus = expired only in a step that applies, for
\* its customer, a subscription created/updated event with status active (the record
\* becomes premium) or trialing (it becomes trial); no request step and no passage of
\* time changes planStatus from expired.
C6_OnlySubscriptionEventLeavesExpired ==
    [][\A i \in DOMAIN store :
        (store[i].planStatus = "expired" /\ store'[i].planStatus # "expired") =>
            \E h \in Hooks :
                /\ AppliesSubscription(h, i, {"active", "trialing"})
                /\ store'[i].planStatus =
                       IF hevent[h].status = "active" THEN "premium" ELSE "trial"
      ]_vars

\* a delivery has read an expired record and is about to save it as premium
C6_Witness ==
    \E h \in Hooks :
        /\ hpc[h] = "save"
        /\ hevent[h].status = "active"
        /\ hloaded[h].planStatus = "expired"
        /\ store[huid[h]].planStatus = "expired"
        /\ huser[h].planStatus = "premium"
        /\ now = MaxTime

\* C7: in every reachable state every stored record with planStatus = trial has
\* trialEndsAt set.
C7_TrialHasExpiry ==
    \A i \in DOMAIN store : store[i].planStatus = "trial" => store[i].trialEndsAt # None

\* a trialing event without trial_end has been applied: the record is trial, its
\* trialEndsAt the epoch
C7_Witness ==
    \E h \in Hooks :
        /\ hpc[h] = "done"
        /\ huid[h] # 0
        /\ hevent[h].status = "trialing"
        /\ hevent[h].trial_end = None
        /\ store[huid[h]].planStatus = "trial"
        /\ store[huid[h]].trialEndsAt = Some(0)

\* C8 as claimed: in every reachable state trialEndsAt is present only on records
\* whose planStatus is trial.
C8_ExpiryOnlyOnTrial ==
    \A i \in DOMAIN store : store[i].trialEndsAt # None => store[i].planStatus = "trial"

\* C9: a delivery that runs on the record as stored leaves the collection as the
\* handler run without interruption leaves it, and applying the same event once more
\* to that result changes nothing; the deliveries that save nothing change nothing.
C9_ApplyTwice ==
    [][\A h \in Hooks :
        /\ (hpc[h] = "save" /\ hpc'[h] = "done" /\ hloaded[h] = store[huid[h]]) =>
              /\ store' = Apply(store, hevent[h])
              /\ Apply(store', hevent[h]) = store'
        /\ (HookStepOf(h) /\ hpc[h] # "save") =>
              /\ store' = store
              /\ hpc'[h] = "done" => Apply(store, hevent'[h]) = store
      ]_vars

\* the event that made a record premium is delivered again and changes nothing
C9_Witness ==
    \E h \in Hooks :
        /\ hpc[h] = "save"
        /\ hevent[h].status = "active"
        /\ hloaded[h].planStatus = "premium"
        /\ hloaded[h] = store[huid[h]]
        /\ huser[h] = hloaded[h]

SavesFresh(h) ==
    /\ hpc[h] = "save"
    /\ hpc'[h] = "done"
    /\ hloaded[h] = store[huid[h]]

SubscriptionTypes == {"customer.subscription.created", "customer.subscription.updated"}

\* C11: applied to the matching record, whatever its state, a subscription event with
\* status active leaves planStatus = premium and no trialEndsAt, and one with status
\* trialing and trial end t leaves planStatus = trial and trialEndsAt = t.
C11_ActiveAndTrialing ==
    [][\A h \in Hooks :
        (SavesFresh(h) /\ hevent[h].type \in SubscriptionTypes) =>
            /\ store[huid[h]].stripeCustomerId = hevent[h].customer
            /\ hevent[h].status = "active" =>
                  /\ store'[huid[h]].planStatus = "premium"
                  /\ store'[huid[h]].trialEndsAt = None
            /\ (hevent[h].status = "trialing" /\ hevent[h].trial_end # None) =>
                  /\ store'[huid[h]].planStatus = "trial"
                  /\ store'[huid[h]].trialEndsAt = hevent[h].trial_end
      ]_vars

\* a trialing event has put an end of trial on a record that had none
C11_Witness ==
    \E h \in Hooks :
        /\ hpc[h] = "done"
        /\ huid[h] # 0
        /\ hevent[h].status = "trialing"
        /\ hevent[h].trial_end = Some(MaxTime)
        /\ store[huid[h]].planStatus = "trial"
        /\ store[huid[h]].trialEndsAt = Some(MaxTime)
        /\ now = 0

\* C12 as claimed: a subscription event with an expired status and invoice.payment_failed
\* each leave planStatus = expired and no trialEndsAt and keep a stripeSubscriptionId;
\* customer.subscription.deleted also clears stripeSubscriptionId.
C12_ExpiredEvents ==
    [][\A h \in Hooks :
        LET e == hevent[h]
            i == huid[h] IN
        /\ (SavesFresh(h) /\ e.type \in SubscriptionTypes
                /\ e.status \notin {"active", "trialing"}) =>
              /\ store'[i].planStatus = "expired"
              /\ store'[i].trialEndsAt = None
              /\ store'[i].stripeSubscriptionId # Null
        /\ (SavesFresh(h) /\ e.type = "invoice.payment_failed") =>
              /\ store'[i].planStatus = "expired"
              /\ store'[i].trialEndsAt = None
              /\ store'[i].stripeSubscriptionId = store[i].stripeSubscriptionId
        /\ (SavesFresh(h) /\ e.type = "customer.subscription.deleted") =>
              /\ store'[i].planStatus = "expired"
              /\ store'[i].trialEndsAt = None
              /\ store'[i].stripeSubscriptionId = Null
      ]_vars

\* C13: the delivery of invoice.paid is acknowledged at once, looks no record up and
\* leaves every stored record as it is, whatever the plan of the customer's record.
C13_InvoicePaidNoOp ==
    [][\A h \in Hooks :
        (HookStepOf(h) /\ hevent'[h].type = "invoice.paid" /\ hpc[h] \in {"idle", "done"}) =>
            /\ store' = store
            /\ hpc'[h] = "done"
            /\ hresp'[h] = [status |-> 200, body |-> "received"]
      ]_vars

\* invoice.paid was delivered for the customer of a premium record
C13_Witness ==
    \E h \in Hooks, i \in DOMAIN store :
        /\ hpc[h] = "done"
        /\ hevent[h].type = "invoice.paid"
        /\ store[i].stripeCustomerId = hevent[h].customer
        /\ store[i].planStatus = "premium"

\* C14: when no stored record has the customer of an event, the delivery adds no
\* record, changes none and is answered 200 { received: true }.
C14_UnmatchedDropped ==
    [][\A h \in Hooks :
        (hpc[h] = "find" /\ HookStepOf(h)
            /\ \A i \in DOMAIN store : store[i].stripeCustomerId # hevent[h].customer) =>
            /\ store' = store
            /\ hpc'[h] = "done"
            /\ hresp'[h] = [status |-> 200, body |-> "received"]
      ]_vars

\* an event for a customer of no record was acknowledged while another customer's
\* record is stored
C14_Witness ==
    \E h \in Hooks, i \in DOMAIN store :
        /\ hpc[h] = "done"
        /\ LooksUpUser(hevent[h])
        /\ huid[h] = 0
        /\ hresp[h] = [status |-> 200, body |-> "received"]
        /\ store[i].stripeCustomerId \notin {Null, hevent[h].customer}

\* C15 as claimed: the trial-expiry save of a request does not overwrite what a
\* delivery wrote after the request had read the record: a record that an active
\* subscription event made premium in between is still premium after the save.
C15_NoLostUpdate ==
    [][\A r \in Reqs :
        (pc[r] = "saveExpired" /\ StepOf(r) /\ loaded[r].planStatus = "trial"
            /\ store[uid[r]].planStatus = "premium") =>
            store'[uid[r]].planStatus = "premium"
      ]_vars

\* C16 as claimed: a request that reads the record after a delivery has finished
\* applying an active subscription event to it, and before any other delivery, reads
\* premium, and reads expired after a deleted event; checkUserPlan allows the one and
\* denies the other.
C16_EventsVisible ==
    [][\A r \in Reqs, h \in Hooks :
        /\ (pc[r] = "findUser" /\ StepOf(r) /\ hpc[h] = "done" /\ huid[h] # 0
                /\ store[huid[h]].auth0Id = auth[r].sub) =>
              /\ (hevent[h].type \in SubscriptionTypes /\ hevent[h].status = "active") =>
                    userRecord'[r].planStatus = "premium"
              /\ hevent[h].type = "customer.subscription.deleted" =>
                    userRecord'[r].planStatus = "expired"
        /\ (GateRuns(r) /\ userRecord[r].planStatus = "premium") => pc'[r] = "route"
        /\ (GateRuns(r) /\ userRecord[r].planStatus = "expired") =>
              pc'[r] = "done" /\ resp'[r].status = 403
      ]_vars

(***************************************************************************)
(* Properties of the /api/chat turn                                        *)
(***************************************************************************)
\* message m is an assistant message of run id whose content is text
Matches(m, id) ==
    /\ m.role = "assistant"
    /\ m.run_id = id
    /\ m.content # <<>>
    /\ m.content[1].type = "text"

\* in this step the handler of r receives the thread's messages and answers
ListArrives(r) ==
    /\ pc[r] = "listMessages"
    /\ pc'[r] = "done"
    /\ payload'[r].details # "Failed to retrieve messages"

\* C17 as claimed: when the loop is left with status completed, after any queued,
\* in_progress and requires_action observations, and the listed messages hold an
\* assistant text message of this run, the answer is 200 with the text of such a
\* message.
C17_CompletedRunReplies ==
    [][\A r \in Reqs :
        (ListArrives(r) /\ run[r].status = "completed"
            /\ \E i \in DOMAIN messages'[r] : Matches(messages'[r][i], run[r].id)) =>
            /\ resp'[r].status = 200
            /\ \E i \in DOMAIN messages'[r] :
                  /\ Matches(messages'[r][i], run[r].id)
                  /\ payload'[r].response = messages'[r][i].content[1].value
      ]_vars

\* C18: when a run object with status failed and a last_error arrives, the request
\* is answered 500 with the code and the message of last_error, no reply text, and
\* no call to the assistant service is issued, so the messages are never listed.
C18_FailedRunSurfaced ==
    [][\A r \in Reqs :
        (StepOf(r) /\ pc[r] \in {"createRun", "getRun", "submit"}
            /\ run'[r].status = "failed" /\ run'[r].last_error # None) =>
            /\ pc'[r] = "done"
            /\ resp'[r] = [status |-> 500, body |-> "Assistant processing failed."]
            /\ payload'[r].code = run'[r].last_error[1].code
            /\ payload'[r].details = run'[r].last_error[1].message
            /\ payload'[r].response = Null
            /\ rpc'[r] = rpc[r]
            /\ \A i \in DOMAIN rpc'[r] : rpc'[r][i] # "listMessages"
      ]_vars

\* a poll after a tool submission found the run failed with a rate limit error
C18_Witness ==
    \E r \in Reqs :
        /\ pc[r] = "done"
        /\ run[r].status = "failed"
        /\ run[r].last_error = Some([code |-> "rate_limit_exceeded", message |-> "Rate limit reached"])
        /\ rpc[r] = <<"addMessage", "createRun", "getRun", "submit", "getRun">>
        /\ resp[r].status = 500
        /\ payload[r].code = "rate_limit_exceeded"
        /\ payload[r].details = "Rate limit reached"

\* C19 as claimed: for a completed run whose listed messages hold no assistant text
\* message of this run, the answer is 200 with the fallback text.
C19_FallbackNeverFails ==
    [][\A r \in Reqs :
        (ListArrives(r) /\ run[r].status = "completed"
            /\ \A i \in DOMAIN messages'[r] : ~Matches(messages'[r][i], run[r].id)) =>
            /\ resp'[r].status = 200
            /\ payload'[r].response = Fallback
      ]_vars

Last(log) == log[Len(log)]

\* the run object asks for tool outputs
NeedsTools(rn) == rn.status = "requires_action" /\ rn.required_action # None

\* one output per call, with the ids of the calls in their order
AnswersAll(outs, calls) ==
    /\ Len(outs) = Len(calls)
    /\ \A i \in DOMAIN calls : outs[i].tool_call_id = calls[i].id

\* C21: a poll that returns a run requiring action with tool calls is followed by the
\* computation of one output per call, ids in order, then by one submit of all of
\* them, then by the test of the loop; a submit is sent in no other situation: it
\* directly follows a poll that asked for tool outputs, and the poll after a poll that
\* asked for them comes only after that one submit.
C21_OneSubmitPerPause ==
    [][\A r \in Reqs :
        /\ (pc[r] = "getRun" /\ pc'[r] \notin {"getRun", "done"} /\ NeedsTools(run'[r])) =>
              /\ pc'[r] = "toolOutputs"
              /\ rpc'[r] = rpc[r]
              /\ AnswersAll(toolOutputs'[r], run'[r].required_action[1])
        /\ (pc[r] = "toolOutputs" /\ StepOf(r)) =>
              /\ pc'[r] = "submit"
              /\ rpc'[r] = Append(rpc[r], "submit")
              /\ toolOutputs'[r] = toolOutputs[r]
        /\ (rpc'[r] # rpc[r] /\ rpc'[r] # <<>> /\ Last(rpc'[r]) = "submit") =>
              /\ pc[r] = "toolOutputs"
              /\ Last(rpc[r]) = "getRun"
              /\ NeedsTools(run[r])
              /\ AnswersAll(toolOutputs[r], run[r].required_action[1])
        /\ (rpc'[r] = Append(rpc[r], "getRun") /\ Last(rpc[r]) = "getRun") =>
              ~NeedsTools(run[r])
      ]_vars

\* the outputs of two tool calls were submitted together, in the order of the calls
C21_Witness ==
    \E r \in Reqs :
        /\ pc[r] = "submit"
        /\ Last(rpc[r]) = "submit"
        /\ Len(run[r].required_action[1]) = 2
        /\ Len(toolOutputs[r]) = 2
        /\ toolOutputs[r][1].tool_call_id = "call1"
        /\ toolOutputs[r][2].tool_call_id = "call2"

\* the tool names the dispatcher knows
KnownTools == {"get_current_weather", "get_time"}

\* C22: in every submit the output for a call of a tool the dispatcher does not know
\* is the placeholder text under the id of that call; a poll that brings such a call
\* does not end the turn: the outputs are computed and the submit is sent.
C22_UnknownToolPlaceholder ==
    [][\A r \in Reqs :
        /\ rpc'[r] = Append(rpc[r], "submit") =>
              \A i \in DOMAIN run[r].required_action[1] :
                  run[r].required_action[1][i].name \notin KnownTools =>
                      toolOutputs[r][i] = [tool_call_id |-> run[r].required_action[1][i].id,
                                           output |-> Placeholder]
        /\ (pc[r] \in {"getRun", "toolOutputs"} /\ StepOf(r) /\ NeedsTools(run'[r])
                /\ \E i \in DOMAIN run'[r].required_action[1] :
                      run'[r].required_action[1][i].name \notin KnownTools) =>
              \/ pc'[r] \in {"toolOutputs", "submit"} /\ resp'[r] = NoResp
              \/ pc[r] = "getRun" /\ run'[r] = run[r] /\ payload'[r].details = "Failed to retrieve run"
      ]_vars

\* a turn that answered a call of an unknown tool with the placeholder ended with 200
C22_Witness ==
    \E r \in Reqs :
        /\ pc[r] = "done"
        /\ resp[r].status = 200
        /\ toolOutputs[r] = <<[tool_call_id |-> "call1", output |-> Placeholder]>>

\* the run is waiting or working
Running(rn) == rn.status \in {"queued", "in_progress"}

\* in this step the handler of r, in its loop, has a run that is waiting or working
\* as the last run object received
StepWhileRunning(r) ==
    /\ StepOf(r)
    /\ pc[r] \in {"createRun", "getRun", "submit", "sleep"}
    /\ Running(run'[r])

\* after a run object of a waiting or working run the handler waits, without a call
\* and without an answer
WaitsNext(r) ==
    /\ pc[r] # "sleep"
    /\ pc'[r] = "sleep"
    /\ rpc'[r] = rpc[r]
    /\ resp'[r] = NoResp

\* after the wait the handler polls the run, and does nothing else
PollsNext(r) ==
    /\ pc[r] = "sleep"
    /\ pc'[r] = "getRun"
    /\ rpc'[r] = Append(rpc[r], "getRun")
    /\ run'[r] = run[r]
    /\ resp'[r] = NoResp

\* C23 as claimed: while the last run object received is of a waiting or working run,
\* the handler only waits and then polls: no list of messages, no submit, no answer.
C23_OnlyPollsWhileRunning ==
    [][\A r \in Reqs : StepWhileRunning(r) => (WaitsNext(r) \/ PollsNext(r))]_vars

\* C23, amended: while the last run object received is of a waiting or working run,
\* the handler only waits and then polls, with no list of messages and no submit; the
\* only answer it sends is the 500 for a poll that is not ok.
C23_OnlyPollsOrPollFails ==
    [][\A r \in Reqs :
        StepWhileRunning(r) =>
            \/ WaitsNext(r)
            \/ PollsNext(r)
            \/ /\ pc[r] = "getRun"
               /\ pc'[r] = "done"
               /\ run'[r] = run[r]
               /\ rpc'[r] = rpc[r]
               /\ resp'[r] = [status |-> 500, body |-> "Failed to get assistant response"]
               /\ payload'[r] = ErrorPayload("Failed to retrieve run")
      ]_vars

\* a second poll was sent after the first one found the run in progress
C23_Witness ==
    \E r \in Reqs :
        /\ pc[r] = "getRun"
        /\ run[r].status = "in_progress"
        /\ rpc[r] = <<"addMessage", "createRun", "getRun", "getRun">>

\* the number of status polls in a log of calls
Polls(log) == Cardinality({i \in DOMAIN log : log[i] = "getRun"})

\* C24 as claimed, for a deadline within the polls that are followed: a turn whose
\* polls have all succeeded and whose last poll still reports a waiting or working run
\* does not wait for another poll but ends with an error answer.
C24_PollingHasDeadline ==
    [][\A r \in Reqs :
        (pc[r] = "getRun" /\ StepOf(r) /\ Polls(rpc[r]) = MaxPolls /\ Running(run'[r])) =>
            /\ pc'[r] = "done"
            /\ resp'[r].status = 500
      ]_vars

(***************************************************************************)
(* Liveness of the /api/chat turn                                          *)
(***************************************************************************)
\* C25: when the run ends, every call returns and the handler is scheduled, a chat
\* request with both fields that has passed checkUserPlan is eventually answered,
\* with 200 or 500; an answer is sent in the step that ends the request and is not
\* followed by another one for that request.
C25_TurnIsAnswered ==
    /\ \A r \in Reqs :
          (pc[r] = "route" /\ route[r] = "chat"
              /\ reqBody[r].threadId # Null /\ reqBody[r].message # Null)
            ~> (pc[r] = "done" /\ resp[r].status \in {200, 500})
    /\ [][\A r \in Reqs :
            /\ resp'[r] # resp[r] =>
                  \/ pc'[r] = "done" /\ resp[r] = NoResp
                  \/ pc'[r] = "findUser" /\ resp'[r] = NoResp
            /\ (pc[r] = "done" /\ StepOf(r)) => pc'[r] = "findUser"
         ]_vars

\* a turn was answered 200 after as many polls as are followed
C25_Witness ==
    \E r \in Reqs :
        /\ pc[r] = "done"
        /\ resp[r].status = 200
        /\ run[r].status = "completed"
        /\ Polls(rpc[r]) = MaxPolls

(***************************************************************************)
(* Errors of the /api/chat turn                                            *)
(***************************************************************************)
\* the call of r to the assistant service that is under way returns a non-2xx result
\* (the body of a result that is not ok is never read)
RpcFails(r) ==
    \/ AddMessageReturns(r, FALSE)
    \/ \E rn \in RunReplies : CreateRunReturns(r, FALSE, rn)
    \/ \E rn \in RunReplies : GetRunReturns(r, FALSE, rn)
    \/ \E rn \in RunReplies : SubmitReturns(r, FALSE, rn)
    \/ ListReturns(r, FALSE, <<>>)

\* the messages the handler throws for a call that is not ok, by the call
FailureOf ==
    [addMessage |-> "Failed to add message", createRun |-> "Failed to create run",
     getRun |-> "Failed to retrieve run", submit |-> "Failed to submit tool outputs",
     listMessages |-> "Failed to retrieve messages"]

\* C26: when a call of a turn to the assistant service (add message, create run, get
\* run, submit tool outputs, list messages) returns a non-2xx result, the turn ends at
\* once with a 500 answer naming that failure and sends no call after it; an answered
\* turn sends no call at all; a turn whose message could not be added has sent that
\* one call only, so no run was created.
C26_FailedCallEndsTurn ==
    /\ [][\A r \in Reqs :
            /\ RpcFails(r) =>
                 /\ pc'[r] = "done"
                 /\ resp'[r] = [status |-> 500, body |-> "Failed to get assistant response"]
                 /\ payload'[r] = ErrorPayload(FailureOf[pc[r]])
                 /\ rpc'[r] = rpc[r]
            /\ pc[r] = "done" /\ pc'[r] = "done" => rpc'[r] = rpc[r]
       ]_vars
    /\ [](\A r \in Reqs :
            payload[r].details = "Failed to add message"
                => pc[r] = "done" /\ rpc[r] = <<"addMessage">> /\ run[r] = NoRun)

\* the submit of tool outputs was not ok: the turn is answered 500 and submit is the
\* last call it sent
C26_Witness ==
    \E r \in Reqs :
        /\ pc[r] = "done"
        /\ resp[r].status = 500
        /\ payload[r].details = "Failed to submit tool outputs"
        /\ rpc[r] = <<"addMessage", "createRun", "getRun", "submit">>

\* C27: a /api/chat request that has passed the gate and whose body lacks threadId or
\* lacks message is answered 400 "threadId and message are required" and has sent no
\* call to the assistant service; a /api/chat request whose record is not entitled is
\* answered 403 by the gate, whatever its body holds, and has sent no call either.
C27_MissingFieldsAndDenial ==
    /\ [][\A r \in Reqs :
            /\ (/\ StepOf(r)
                /\ pc[r] = "route"
                /\ route[r] = "chat"
                /\ (reqBody[r].threadId = Null \/ reqBody[r].message = Null))
                   => /\ pc'[r] = "done"
                      /\ resp'[r] = [status |-> 400, body |-> "threadId and message are required"]
                      /\ rpc'[r] = <<>>
            /\ (GateRuns(r) /\ route[r] = "chat" /\ ~Entitled(userRecord[r], now))
                   => /\ \/ pc'[r] = "saveExpired"
                         \/ pc'[r] = "done" /\ resp'[r].status = 403
                      /\ reqBody'[r] = reqBody[r]
                      /\ rpc'[r] = <<>>
            /\ (StepOf(r) /\ pc[r] = "saveExpired")
                   => pc'[r] = "done" /\ resp'[r].status = 403 /\ rpc'[r] = <<>>
       ]_vars
    /\ [](\A r \in Reqs : resp[r].status \in {400, 403} => rpc[r] = <<>>)

\* a request with a thread reference and no message was answered 400 by the handler
C27_Witness ==
    \E r \in Reqs :
        /\ pc[r] = "done"
        /\ resp[r].status = 400
        /\ reqBody[r].threadId # Null
        /\ reqBody[r].message = Null
        /\ rpc[r] = <<>>

(***************************************************************************)
(* The gate comes before the assistant service                             *)
(***************************************************************************)
\* the positions of a request inside a route handler of /api/new-thread or /api/chat
InHandler ==
    {"route", "createThread", "addMessage", "createRun", "sleep", "getRun", "toolOutputs",
     "submit", "listMessages"}

\* C28: a request enters a handler that calls the assistant service only by a step of
\* the gate, taken on a record that is entitled at that time (an allow decision); a
\* call to the assistant service (create thread, add message, create run, get run,
\* submit, list) is sent only from inside the handler; so a request that was answered
\* 403 has sent no call.
C28_NoCallWithoutAllow ==
    /\ [][\A r \in Reqs :
            /\ (pc'[r] \in InHandler /\ pc[r] \notin InHandler)
                   => /\ pc'[r] = "route"
                      /\ GateRuns(r)
                      /\ Entitled(userRecord[r], now)
                      /\ rpc'[r] = <<>>
            /\ (rpc'[r] # rpc[r] /\ rpc'[r] # <<>>)
                   => /\ pc[r] \in InHandler
                      /\ \E op \in {"createThread", "addMessage", "createRun", "getRun",
                                    "submit", "listMessages"} : rpc'[r] = Append(rpc[r], op)
       ]_vars
    /\ [](\A r \in Reqs : resp[r].status = 403 => rpc[r] = <<>>)

\* a status poll is under way for a request whose record was entitled when the gate
\* ran, and the trial has passed since
C28_Witness ==
    \E r \in Reqs :
        /\ pc[r] = "getRun"
        /\ rpc[r] = <<"addMessage", "createRun", "getRun">>
        /\ userRecord[r].planStatus = "trial"
        /\ TrialPassed(userRecord[r], now)

(***************************************************************************)
(* Turns at once                                                           *)
(***************************************************************************)
\* what the handler of r holds: its position, its answer, and its local variables
Local(r) ==
    <<pc[r], resp[r], reqBody[r], run[r], rpc[r], toolOutputs[r], messages[r], payload[r]>>

\* a log of calls a turn on its own can have sent: add message, create run, then polls
\* and submits, a submit only after a poll, and the list of messages last
TurnLog(log) ==
    \A i \in DOMAIN log :
        /\ i = 1 => log[i] = "addMessage"
        /\ i = 2 => log[i] = "createRun"
        /\ i > 2 => log[i] \in {"getRun", "submit", "listMessages"}
        /\ log[i] = "submit" => log[i - 1] = "getRun"
        /\ log[i] = "listMessages" => i = Len(log)

\* the answer of a turn that listed the messages list for the run id
ReplyOf(list, id) ==
    LET i == FindReply(list, id) IN
      IF i = 0 THEN Fallback ELSE list[i].content[1].value

\* C29: of two /api/chat turns under way at once on different threads, a step of one
\* changes nothing the other holds (position, answer, body, run, log of calls, tool
\* outputs, messages); at every moment each turn's run is a run of its own thread, its
\* log of calls is one a turn alone sends, and its answer is the one its own run and
\* its own list of messages give.
C29_TurnsDoNotInterfere ==
    /\ [][\A r \in Reqs : \A q \in Reqs \ {r} :
            Local(r)' # Local(r) => Local(q)' = Local(q)]_vars
    /\ [](\A r \in Reqs :
            /\ TurnLog(rpc[r])
            /\ run[r] # NoRun =>
                 /\ run[r].thread_id = reqBody[r].threadId
                 /\ Len(rpc[r]) >= 2
            /\ resp[r] = [status |-> 200, body |-> "response"] =>
                 /\ Last(rpc[r]) = "listMessages"
                 /\ run[r].status \notin {"queued", "in_progress", "requires_action", "failed"}
                 /\ payload[r].response = ReplyOf(messages[r], run[r].id)
            /\ resp[r] = [status |-> 500, body |-> "Assistant processing failed."] =>
                 /\ Last(rpc[r]) \in {"createRun", "getRun", "submit"}
                 /\ run[r].status = "failed"
                 /\ payload[r] = FailurePayload(run[r]))

\* the first turn is polling its run on th1 after a submit of tool outputs while the
\* second turn is listing the messages of its completed run on th2
C29_Witness ==
    /\ pc["r1"] = "getRun"
    /\ run["r1"].thread_id = "th1"
    /\ "submit" \in {rpc["r1"][i] : i \in DOMAIN rpc["r1"]}
    /\ pc["r2"] = "listMessages"
    /\ run["r2"].thread_id = "th2"
    /\ run["r2"].status = "completed"

(***************************************************************************)
(* The billing customer of a record                                        *)
(***************************************************************************)
\* C30 as claimed: however payment flows of one identity follow each other or overlap,
\* at most one billing customer is created for the identity, and the stripeCustomerId
\* of a stored record, once set, is never replaced by another value.
C30_CustomerSetOnce ==
    /\ [][\A i \in DOMAIN store :
            store[i].stripeCustomerId # Null
                => store'[i].stripeCustomerId = store[i].stripeCustomerId]_vars
    /\ [](nextCus <= 1)

(***************************************************************************)
(* Token claims and the stored record                                      *)
(***************************************************************************)
\* C31: ensureUserExists, finding a record for the identity, saves no change to its
\* planStatus, trialEndsAt, stripeCustomerId or stripeSubscriptionId whatever the
\* claims of the token are; a stored email or name is never replaced, and an email or
\* name that changes was absent and becomes the one of the token.
C31_ClaimsOnlyFillMetadata ==
    [][\A r \in Reqs :
        (StepOf(r) /\ pc[r] = "saveUser") =>
            /\ Len(store') = Len(store)
            /\ \A i \in DOMAIN store :
                 /\ store'[i].auth0Id = store[i].auth0Id
                 /\ \A f \in PlanFields : store'[i][f] = store[i][f]
                 /\ store[i].email # Null => store'[i].email = store[i].email
                 /\ store[i].name # Null => store'[i].name = store[i].name
                 /\ store'[i].email # store[i].email =>
                        i = uid[r] /\ store'[i].email = auth[r].email
                 /\ store'[i].name # store[i].name =>
                        i = uid[r] /\ store'[i].name = auth[r].name
      ]_vars

\* a record stored with email "e" and no name was found by a request whose token says
\* "e2" and "n2": the name was filled, the email is still "e", the plan is premium
C31_Witness ==
    /\ Len(store) = 1
    /\ store[1].email = "e"
    /\ store[1].name = "n2"
    /\ store[1].planStatus = "premium"
    /\ store[1].stripeCustomerId = CustomerIds[1]
    /\ pc["r1"] = "done"

(***************************************************************************)
(* The status a reply is given for                                         *)
(***************************************************************************)
\* C32 as claimed: a turn is answered 200, with a reply or with the fallback text,
\* only when the last run object it received has status completed.
C32_ReplyOnlyWhenCompleted ==
    \A r \in Reqs :
        resp[r] = [status |-> 200, body |-> "response"] => run[r].status = "completed"

(***************************************************************************)
(* The order of the calls of a turn                                        *)
(***************************************************************************)
\* C33: the calls of a /api/chat turn go out in the order add message, create run,
\* then polls, each optionally followed by one submit of tool outputs, then at most
\* one list of messages; the list is requested only once the run object held is
\* outside queued / in_progress / requires_action, and after the run was created;
\* every request is answered, and its answer is written once, when it ends.
C33_CallOrderOneAnswer ==
    /\ [](\A r \in Reqs :
            /\ rpc[r] = <<"createThread">> \/ TurnLog(rpc[r])
            /\ pc[r] = "done" <=> resp[r] # NoResp)
    /\ [][\A r \in Reqs :
            /\ (rpc'[r] # rpc[r] /\ rpc'[r] # <<>> /\ Last(rpc'[r]) = "listMessages") =>
                 /\ run'[r].status \notin {"queued", "in_progress", "requires_action"}
                 /\ Len(rpc[r]) >= 2
                 /\ rpc[r][2] = "createRun"
            /\ resp'[r] # resp[r] =>
                 \/ pc[r] \notin {"idle", "done"} /\ pc'[r] = "done"
                 \/ pc[r] = "done" /\ pc'[r] = "findUser" /\ resp'[r] = NoResp
       ]_vars
    /\ \A r \in Reqs : pc[r] = "findUser" ~> pc[r] = "done"

\* a turn was answered 200 after add message, create run, a poll that asked for tool
\* outputs, their submit, a second poll, and the list of messages
C33_Witness ==
    \E r \in Reqs :
        /\ pc[r] = "done"
        /\ resp[r].status = 200
        /\ rpc[r] = <<"addMessage", "createRun", "getRun", "submit", "getRun", "listMessages">>

(***************************************************************************)
(* Starting a payment flow                                                 *)
(***************************************************************************)
\* C34 as claimed: when customer.subscription.created with status incomplete, the
\* event of the subscription create-payment-intent has just made, is applied to the
\* record of a user whose trial has not passed, the record is still a trial and
\* checkUserPlan still lets the user through.
C34_PaymentStartKeepsTrial ==
    [][\A h \in Hooks :
        LET e == hevent[h]
            i == huid[h] IN
        (/\ HookStepOf(h)
         /\ hpc[h] = "save"
         /\ e.type = "customer.subscription.created"
         /\ e.status = "incomplete"
         /\ store[i].planStatus = "trial"
         /\ ~TrialPassed(store[i], now)) =>
            /\ store'[i].planStatus = "trial"
            /\ Entitled(store'[i], now)
      ]_vars

(***************************************************************************)
(* Events set absolute state                                               *)
(***************************************************************************)
\* C35 as claimed: when an event other than invoice.paid has been applied to the
\* record of its customer, planStatus and trialEndsAt of the record are what the same
\* event gives on any other record: they depend on that event alone, not on the
\* events applied before it or on the state the record was in.
C35_LastEventDecides ==
    [][\A h \in Hooks :
        (SavesFresh(h) /\ hevent[h].type # "invoice.paid") =>
            \A d \in ClaimDocs :
                /\ Reconcile(d, hevent[h]).planStatus = store'[huid[h]].planStatus
                /\ Reconcile(d, hevent[h]).trialEndsAt = store'[huid[h]].trialEndsAt
      ]_vars

(***************************************************************************)
(* First requests of one identity at once                                  *)
(***************************************************************************)
\* the positions of a request that ensureUserExists has passed on with next()
PastEnsure ==
    {"route", "saveExpired", "createCustomer", "saveCustomer", "createSubscription"}

\* C36: however the first requests of an identity interleave, the collection never
\* holds two documents with the same auth0Id; a request whose insert is refused is
\* answered 500 and goes no further, a request that goes on past ensureUserExists
\* holds a document that is stored under its identity.
C36_OneRecordPerIdentity ==
    /\ [](\A i \in DOMAIN store : \A j \in DOMAIN store :
            store[i].auth0Id = store[j].auth0Id => i = j)
    /\ [](\A r \in Reqs :
            pc[r] \in PastEnsure =>
                /\ uid[r] \in DOMAIN store
                /\ store[uid[r]].auth0Id = auth[r].sub
                /\ userRecord[r].auth0Id = auth[r].sub)
    /\ [][\A r \in Reqs :
            (StepOf(r) /\ pc[r] = "insert") =>
                \/ /\ store' = store
                   /\ pc'[r] = "done"
                   /\ resp'[r] = [status |-> 500, body |-> "Server error during user lookup/creation"]
                \/ /\ store' = Append(store, userRecord[r])
                   /\ \A i \in DOMAIN store : store[i].auth0Id # userRecord[r].auth0Id
                   /\ pc'[r] \in PastEnsure \/ resp'[r].status = 200
       ]_vars

\* two requests found no record of the identity; one has stored the new record and goes
\* on with it, the other was refused by the unique index and answered 500
C36_Witness ==
    \E r \in Reqs : \E q \in Reqs \ {r} :
        /\ Len(store) = 1
        /\ pc[r] \in PastEnsure
        /\ store[uid[r]].auth0Id = "u1"
        /\ resp[q] = [status |-> 500, body |-> "Server error during user lookup/creation"]

(***************************************************************************)
(* One identity's steps and another identity's record                      *)
(***************************************************************************)
\* C37: the save of a webhook delivery changes no stored record other than one whose
\* stripeCustomerId is the customer of the event; a step of a request through
\* ensureUserExists and checkUserPlan changes no stored record of another identity
\* than the one of its token; no step removes a record.
C37_OthersUntouched ==
    [][/\ Len(store') >= Len(store)
       /\ \A h \in Hooks :
            HookStepOf(h) =>
                \A i \in DOMAIN store :
                    store'[i] # store[i] => store[i].stripeCustomerId = hevent[h].customer
       /\ \A r \in Reqs :
            (StepOf(r) /\ route[r] \in Protected) =>
                \A i \in DOMAIN store :
                    store'[i] # store[i] => store[i].auth0Id = auth[r].sub
      ]_vars

\* two identities have records; the event for cus1 made the record with that customer
\* premium, the other record is still the trial it was created as
C37_Witness ==
    /\ Len(store) = 2
    /\ \E i \in DOMAIN store : \E j \in DOMAIN store \ {i} :
         /\ store[i].stripeCustomerId = CustomerIds[1]
         /\ store[i].planStatus = "premium"
         /\ store[j].stripeCustomerId # CustomerIds[1]
         /\ store[j].planStatus = "trial"
    /\ \E h \in Hooks : hpc[h] = "done" /\ hresp[h].status = 200

(***************************************************************************)
(* A delivery whose signature is not verified                              *)
(***************************************************************************)
\* C38: a delivery for which stripe.webhooks.constructEvent throws is answered 400 at
\* once, takes no event, looks no user up and leaves the collection as it is; a
\* delivery answered 400 holds no event and no document.
C38_BadSignatureRejected ==
    /\ [][\A h \in Hooks :
            (HookStepOf(h) /\ \E e \in MainEvents : Deliver(h, e, FALSE)) =>
                /\ hpc'[h] = "done"
                /\ hresp'[h] = [status |-> 400, body |-> "Webhook Error"]
                /\ hevent'[h] = NoEvent
                /\ store' = store
       ]_vars
    /\ [](\A h \in Hooks :
            hresp[h].status = 400 =>
                /\ hpc[h] = "done"
                /\ hevent[h] = NoEvent
                /\ huser[h] = NoUser)

\* a delivery was answered 400 while the collection holds a record with the customer
\* cus1, still in trial
C38_Witness ==
    \E h \in Hooks :
        /\ hresp[h] = [status |-> 400, body |-> "Webhook Error"]
        /\ Len(store) = 1
        /\ store[1].stripeCustomerId = CustomerIds[1]
        /\ store[1].planStatus = "trial"

(***************************************************************************)
(* Store errors during a delivery                                          *)
(***************************************************************************)
\* C39: when the lookup or the save of a verified delivery fails, the collection is
\* left as it was and the delivery is answered 200 received; every verified delivery
\* is answered, with 200 received and nothing else, whatever its type and whether a
\* record matched, was changed, or the store failed; the answer is written once, when
\* the delivery ends.
C39_StoreErrorStillAcknowledged ==
    /\ [][\A h \in Hooks :
            /\ (HookFindFails(h) \/ HookSaveFails(h)) =>
                 /\ store' = store
                 /\ hpc'[h] = "done"
                 /\ hresp'[h] = [status |-> 200, body |-> "received"]
            /\ (hresp'[h] # hresp[h] /\ hpc[h] \in {"find", "save"}) => hpc'[h] = "done"
       ]_vars
    /\ [](\A h \in Hooks :
            /\ (hpc[h] = "done" /\ hevent[h] # NoEvent) =>
                   hresp[h] = [status |-> 200, body |-> "received"]
            /\ hpc[h] \in {"find", "save"} => hresp[h] = NoResp)
    /\ \A h \in Hooks : hpc[h] \in {"find", "save"} ~> hpc[h] = "done"

\* the save of an active subscription event failed: the delivery is answered 200
\* received and the record of the customer is still the trial it was
C39_Witness ==
    \E h \in Hooks :
        /\ hpc[h] = "done"
        /\ hresp[h] = [status |-> 200, body |-> "received"]
        /\ hevent[h].type = "customer.subscription.updated"
        /\ hevent[h].status = "active"
        /\ huid[h] \in DOMAIN store
        /\ store[huid[h]].stripeCustomerId = hevent[h].customer
        /\ store[huid[h]].planStatus = "trial"

(***************************************************************************)
(* Whose thread a turn runs on                                             *)
(***************************************************************************)
\* C40 as claimed: a /api/chat request whose threadId is the thread that
\* /api/new-thread has returned to a request of another identity sends no call to the
\* assistant service: no message is added to that thread and no reply is read from it.
C40_ThreadsIsolated ==
    [][\A r \in Reqs : \A q \in Reqs \ {r} :
        (/\ CallerOf[r] # CallerOf[q]
         /\ payload[q].threadId # Null
         /\ reqBody[r].threadId = payload[q].threadId) =>
            rpc'[r] = rpc[r] \/ rpc'[r] = <<>>
      ]_vars

====
